---------------------------- MODULE Spec2Model ----------------------------
(***************************************************************************)
(* A model of roon-rd's zone-state reconciliation engine                   *)
(* (src/src/roon/mod.rs): the event loop of RoonClient::connect, the       *)
(* delayed and immediate broadcast tasks it spawns, the image cache and    *)
(* the queue subscription slot of RoonClient::subscribe_to_queue.          *)
(*                                                                         *)
(* One action per loop iteration (one upstream event consumed, the whole   *)
(* match arm), one action per step of a spawned task (timer, building the  *)
(* payload, sending, self-removal) and one per step of a caller of         *)
(* subscribe_to_queue between two guard acquisitions.                      *)
(***************************************************************************)
EXTENDS Integers, Sequences, FiniteSets, Bags, TLC

(***************************************************************************)
(* Bounds of the model.                                                    *)
(***************************************************************************)
\* zone ids are 1..NumZones
NumZones == 2
\* spawned tasks alive at one time (the code spawns without limit)
MaxTasks == 2
\* tasks between building their payload and sending it at one time
MaxBuilt == 1
\* image keys are 1..NumKeys; key 0 stands for image_key = None
NumKeys == 1
\* seek positions are 0..MaxSeek; -1 stands for seek_position = None
MaxSeek == 1
\* get_image calls without an answer yet, per key
MaxRequests == 2
\* queue item ids are 1..NumItems
NumItems == 1
\* items of one queue snapshot
MaxQueueLen == 1
\* requests for a zone's queue made in one behaviour
MaxCalls == 3
\* transport requests of action calls the core receives in one behaviour
MaxCommands == 1
\* messages stored in the broadcast channel in one behaviour, beyond the
\* length of its ring
MaxOverrun == 2
\* receivers of the broadcast channel (WebSocket viewers, the TUI listener)
MaxReceivers == 2
\* receivers that are more than KeenBacklog messages behind at one time
MaxSlow == 1
KeenBacklog == 1

ZoneIds == 1..NumZones
Keys == 1..NumKeys
NoKey == 0
NoSeek == 0 - 1
NoZone == 0

\* roon_api::transport::State
States == {"Playing", "Paused", "Loading", "Stopped"}

VARIABLES
    zones,            \* RoonClient::zones: zone id -> Zone
    pending_stops,    \* RoonClient::pending_stops: the zone ids with a handle
    tasks,            \* the tokio tasks spawned by the loop and still alive
    connected,        \* RoonClient::connected
    core_name,        \* RoonClient::core_name is Some
    transport_service,\* RoonClient::transport_service is Some
    image_service,    \* RoonClient::image_service is Some
    browse_service,   \* RoonClient::browse_service is Some
    images,           \* RoonClient::images: the keys cached
    image_requests,   \* upstream get_image calls not yet answered, per key
    active_queue_zone,\* RoonClient::active_queue_zone: a zone id or NoZone
    queues,           \* RoonClient::queues: zone id -> the cached queue items
    upstream,         \* the core: the zones with a queue subscription of ours
    due,              \* the core: the zones whose queue snapshot is on its way
    stale,            \* the core: the zones whose queue subscription of ours
                      \* has ended with deltas still on their way
    callers,          \* the requests for a queue, each with its position
    loop_pc,          \* the event loop: "idle" between events, "lost" inside
                      \* the Lost arm waiting to write transport_service,
                      \* "dead" after a panic
    invocations,      \* requests for a queue made so far
    commands,         \* the core: the transport requests of action calls it
                      \* has received
    watch,            \* history: which histories the specification keeps
    lastStep,         \* history: the last step taken, with its input
    sent,             \* history: the messages the last step published
    pubCount,         \* history: ZonesChanged published since the last event
    evPublished,      \* history: the last event has a message published
    solo,             \* history: the last event was the lone-zone stop
    flicker,          \* history: per zone, Playing/Stopped/Playing progress
    stopSeen,         \* history: per zone, a Stopped view-model was published
    ref,              \* history: the reference store, a list of zones
    ws_tx,            \* RoonClient::ws_tx: the broadcast channel
    receivers,        \* the broadcast::Receivers made by subscribe_ws
    published,        \* history: every message the channel has stored
                      \* (watch "fanout"), or the ZonesChanged published
                      \* last (watch "last")
    guards            \* the guards of the shared state taken one by one:
                      \* who holds and who waits for each, and where each
                      \* task stands in the code that takes them

vars == <<zones, pending_stops, tasks, connected, core_name, transport_service,
          image_service, browse_service, images, image_requests,
          active_queue_zone, queues, upstream, due, stale, callers, loop_pc,
          invocations,
          watch, lastStep, sent, pubCount, evPublished, solo, flicker, stopSeen,
          ref, ws_tx, receivers, published, commands, guards>>

histVars == <<watch, lastStep, sent, pubCount, evPublished, solo, flicker, stopSeen,
              ref>>

queueVars == <<active_queue_zone, queues, upstream, due, stale, callers,
               invocations>>

progVars == <<zones, pending_stops, tasks, connected, core_name,
              transport_service, image_service, browse_service, images,
              image_requests, queueVars, loop_pc>>

channelVars == <<ws_tx, receivers, published>>

(***************************************************************************)
(* The zone store: a HashMap<String, Zone>.                                *)
(***************************************************************************)
\* zone.display_name.starts_with("dCS Vivaldi"): a zone keeps its display
\* name, and zone 1 is the dCS Vivaldi
IsDcs(id) == id = 1

\* A Zone as the engine reads it: np is now_playing.is_some(); key and seek
\* are now_playing's image_key and seek_position; outputs is zone.outputs,
\* each output with its source_controls.
Zone(id, st, np, key, seek) ==
    [zone_id |-> id, state |-> st, dcs |-> IsDcs(id), np |-> np,
     key |-> IF np THEN key ELSE NoKey, seek |-> IF np THEN seek ELSE NoSeek,
     outputs |-> <<>>]

\* A wrong insert, which keeps the entry the key has (entry().or_insert())
MapInsertKeep(m, k, v) == [x \in DOMAIN m \cup {k} |-> IF x \in DOMAIN m THEN m[x] ELSE v]

\* HashMap::insert
MapInsert(m, k, v) == [x \in DOMAIN m \cup {k} |-> IF x = k THEN v ELSE m[x]]

\* HashMap::remove
MapRemove(m, k) == [x \in DOMAIN m \ {k} |-> m[x]]

EmptyMap == [x \in {} |-> 0]

\* for zone in zones_changed { zone_map.insert(zone.zone_id.clone(), zone) }
RECURSIVE UpsertAll(_, _)
UpsertAll(m, batch) ==
    IF batch = <<>> THEN m
    ELSE UpsertAll(MapInsert(m, Head(batch).zone_id, Head(batch)), Tail(batch))

\* for zone_id in zones_removed { zone_map.remove(&zone_id) }
RECURSIVE RemoveAll(_, _)
RemoveAll(m, ids) ==
    IF ids = <<>> THEN m
    ELSE RemoveAll(MapRemove(m, Head(ids)), Tail(ids))

\* A wrong patch, which writes the position of a zone that has no now_playing
PatchSeekAlways(m, id, pos) ==
    IF id \in DOMAIN m
    THEN [m EXCEPT ![id] = [@ EXCEPT !.seek = pos]]
    ELSE m

\* zone_map.get_mut(id) and now_playing.as_mut(): seek_position only
PatchSeek(m, id, pos) ==
    IF id \in DOMAIN m /\ m[id].np
    THEN [m EXCEPT ![id] = [@ EXCEPT !.seek = pos]]
    ELSE m

RECURSIVE PatchAll(_, _)
PatchAll(m, seeks) ==
    IF seeks = <<>> THEN m
    ELSE PatchAll(PatchSeek(m, Head(seeks).zone_id, Head(seeks).seek), Tail(seeks))


(***************************************************************************)
(* Broadcast messages (WsMessage) and the history kept about them.         *)
(***************************************************************************)
\* WsMessage::ZonesChanged: raw_zones is the store as build_ws_zone_data_
\* from_zones read it; now_playing is derived from it (WsData below).
ZonesChangedMsg(snap) ==
    [type |-> "ZonesChanged", raw_zones |-> snap, connected |-> FALSE,
     zone_id |-> NoZone, seek |-> NoSeek, qtr |-> 0]

\* WsMessage::ConnectionChanged
ConnectionChangedMsg(c) ==
    [type |-> "ConnectionChanged", raw_zones |-> EmptyMap, connected |-> c,
     zone_id |-> NoZone, seek |-> NoSeek, qtr |-> 0]

\* WsMessage::SeekUpdated
SeekUpdatedMsg(id, pos, qtr) ==
    [type |-> "SeekUpdated", raw_zones |-> EmptyMap, connected |-> FALSE,
     zone_id |-> id, seek |-> pos, qtr |-> qtr]

\* WsMessage::QueueChanged
QueueChangedMsg(id) ==
    [type |-> "QueueChanged", raw_zones |-> EmptyMap, connected |-> FALSE,
     zone_id |-> id, seek |-> NoSeek, qtr |-> 0]

\* One published message with what is known of its publisher: sync (sent by
\* the loop itself), fresh (triggered by the event consumed last), cancelled
\* (the publishing task had been aborted: "no", "asleep", "awake").
Pub(m, sync, fresh, cancelled) ==
    [msg |-> m, sync |-> sync, fresh |-> fresh, cancelled |-> cancelled]

\* The view-model's state string of zone id in a ZonesChanged message, or
\* "Absent": state: format!("{:?}", zone.state)
StateIn(snap, id) == IF id \in DOMAIN snap THEN snap[id].state ELSE "Absent"

(***************************************************************************)
(* The broadcast channel: ws_tx = broadcast::channel(100).0, a ring of the *)
(* messages sent last.  tail counts the messages stored so far; a receiver *)
(* reads position next, and positions below tail - cap are overwritten.    *)
(***************************************************************************)
\* broadcast::channel(100)
WsCapacity == 100


NoMsg ==
    [type |-> "None", raw_zones |-> EmptyMap, connected |-> FALSE,
     zone_id |-> NoZone, seek |-> NoSeek, qtr |-> 0]

\* A receiver: state "none" (not made yet), "made" (by subscribe_ws), "open"
\* (in the loop of its task), "closed" (dropped); next
\* is the position it reads next; last is the message forwarded last and
\* fed says that it came from the channel; lagged is the count of the
\* RecvError::Lagged it got; told is the connected of the ConnectionChanged
\* forwarded last, "up" or "down" (kept under watch "told" only)
NoReceiver ==
    [state |-> "none", next |-> 0, fed |-> FALSE, lagged |-> 0, last |-> NoMsg,
     told |-> "none"]

\* What a receiver has been told once message m is forwarded to it
ToldBy(r, m) ==
    IF "told" \in watch /\ m.type = "ConnectionChanged"
    THEN (IF m.connected THEN "up" ELSE "down")
    ELSE r.told

\* tail.rx_cnt
OpenReceivers == {s \in DOMAIN receivers : receivers[s].state \in {"made", "open"}}

\* A wrong send, of a bounded queue: a full ring takes no message
WsSendBounded(ch, m, rx_cnt) ==
    IF rx_cnt = 0 \/ Len(ch.buf) >= ch.cap THEN ch
    ELSE [ch EXCEPT !.tail = @ + 1, !.buf = Append(@, m)]

\* Err(RecvError::Lagged(n)) => break: the receiver is dropped
Lagged(r, behind, cap) == [NoReceiver EXCEPT !.state = "closed", !.lagged = behind - cap]

\* let _ = ws_tx.send(m): Err(SendError) without a receiver, the message is
\* dropped and the result ignored; otherwise the message takes the slot of
\* the oldest one, read or not.  The call never waits.
WsSend(ch, m, rx_cnt) ==
    IF rx_cnt = 0 THEN ch
    ELSE [ch EXCEPT !.tail = @ + 1,
                    !.buf = IF Len(@) < ch.cap THEN Append(@, m)
                            ELSE Append(Tail(@), m)]

RECURSIVE WsSendAll(_, _, _)
WsSendAll(ch, msgs, rx_cnt) ==
    IF msgs = <<>> THEN ch
    ELSE WsSendAll(WsSend(ch, Head(msgs), rx_cnt), Tail(msgs), rx_cnt)

\* The messages of a sequence of publications
Payloads(pubs) == [i \in 1..Len(pubs) |-> pubs[i].msg]

\* The ZonesChanged published last, once msgs are published after those of seq
RECURSIVE LastZonesChanged(_, _)
LastZonesChanged(seq, msgs) ==
    IF msgs = <<>> THEN seq
    ELSE LastZonesChanged(IF Head(msgs).type = "ZonesChanged" THEN <<Head(msgs)>>
                          ELSE seq, Tail(msgs))

\* ws_tx.send for each of the publications pubs, by the loop or by a task
Broadcast(pubs) ==
    /\ ws_tx' = WsSendAll(ws_tx, Payloads(pubs), Cardinality(OpenReceivers))
    /\ ws_tx'.tail <= ws_tx.cap + MaxOverrun
    /\ Cardinality({s \in OpenReceivers :
                       ws_tx'.tail - receivers[s].next > KeenBacklog}) <= MaxSlow
    /\ published' = IF "fanout" \in watch /\ OpenReceivers # {}
                    THEN published \o Payloads(pubs)
                    ELSE IF "last" \in watch
                    THEN LastZonesChanged(published, Payloads(pubs))
                    ELSE published
    /\ UNCHANGED <<receivers, guards>>

(***************************************************************************)
(* Spawned tasks, a bag of records.  kind: "stop" (the delayed stop task), *)
(* "dcs" (the dCS delay task), "imm" (a spawned broadcast without delay).  *)
(* pc: "sleep" (in tokio::time::sleep), "run" (woken, payload not yet      *)
(* built), "built" (build_ws_zone_data_from_zones returned snap), "sent"   *)
(* (a stop task after ws_tx.send, before it removes itself).  held: the    *)
(* JoinHandle pending_stops holds for the task's zone is this task's.      *)
(* gone: for the broadcast a removal spawned, the ids that removal took    *)
(* out of the store (kept under watch "gone" only).                        *)
(***************************************************************************)
Task(kind, zone, pc) ==
    [kind |-> kind, zone |-> zone, pc |-> pc, snap |-> EmptyMap,
     aborted |-> "no", held |-> (kind = "stop"), fresh |-> TRUE, gone |-> {}]

One(t) == SetToBag({t})

\* tokio::spawn
Spawn(ts, t) == ts (+) One(t)

\* The tasks whose handle the table holds for zone id (at most one)
Held(ts, id) == {t \in BagToSet(ts) : t.kind = "stop" /\ t.zone = id /\ t.held}

\* pending.remove(zone_id) as the task sees it: its handle is dropped
Unhold(ts, id) ==
    LET hs == Held(ts, id) IN
    IF hs = {} THEN ts
    ELSE LET t == CHOOSE x \in hs : TRUE IN
         (ts (-) One(t)) (+) One([t EXCEPT !.held = FALSE])

\* A wrong task.abort(), which cancels nothing
AbortNothing(ts, id) == ts

\* A wrong task.abort(), which lets a task suspended in its sleep wake up
AbortLate(ts, id) ==
    LET hs == Held(ts, id) IN
    IF hs = {} THEN ts
    ELSE LET t == CHOOSE x \in hs : TRUE IN
         (ts (-) One(t))
         (+) One([t EXCEPT !.held = FALSE,
                           !.aborted = IF t.pc = "sleep" THEN "asleep" ELSE "awake"])

\* task.abort() on the handle removed from the table for zone id.  A task
\* suspended in its sleep is dropped there and never runs again.  A task that
\* is past its sleep keeps running until it next returns Pending, which it
\* may never do: it is marked and goes on (see Die).
Abort(ts, id) ==
    LET hs == Held(ts, id) IN
    IF hs = {} THEN ts
    ELSE LET t == CHOOSE x \in hs : TRUE IN
         IF t.pc = "sleep" THEN ts (-) One(t)
         ELSE (ts (-) One(t)) (+) One([t EXCEPT !.held = FALSE, !.aborted = "awake"])

Min(S) == CHOOSE x \in S : \A y \in S : x <= y

\* A task as it is once a later event has been consumed
Old(t) == [t EXCEPT !.fresh = FALSE]

\* Every task alive when an event is consumed was triggered by an earlier
\* one (kept under watch "order" only).
MarkOld(ts) ==
    IF "order" \in watch
    THEN LET olds == {Old(t) : t \in BagToSet(ts)}
         IN  [o \in olds |-> CopiesIn(o, ts) + CopiesIn([o EXCEPT !.fresh = TRUE], ts)]
    ELSE ts

(***************************************************************************)
(* Parsed::Zones, the parts of the match arm.                              *)
(***************************************************************************)
\* image_keys_to_request: one push per zone of the batch whose now_playing has
\* an image_key that images does not contain
RECURSIVE ImageKeysToRequest(_, _)
ImageKeysToRequest(batch, cached) ==
    IF batch = <<>> THEN <<>>
    ELSE LET z == Head(batch)
             rest == ImageKeysToRequest(Tail(batch), cached)
         IN  IF z.np /\ z.key # NoKey /\ z.key \notin cached
             THEN <<z.key>> \o rest
             ELSE rest

\* img.get_image(&image_key, args) for each collected key, when the image
\* service is there
RECURSIVE RequestImages(_, _)
RequestImages(reqs, keys) ==
    IF keys = <<>> THEN reqs
    ELSE RequestImages([reqs EXCEPT ![Head(keys)] = @ + 1], Tail(keys))

\* has_stopped_zones, has_non_stop_zones, has_dcs_playing_zones: of the whole
\* snapshot, not of the batch
StoppedZones(snapshot) == {id \in DOMAIN snapshot : snapshot[id].state = "Stopped"}
NonStopZones(snapshot) ==
    {id \in DOMAIN snapshot : snapshot[id].state \in {"Loading", "Playing", "Paused"}}
DcsPlayingZones(snapshot) ==
    {id \in DOMAIN snapshot : snapshot[id].dcs /\ snapshot[id].state = "Playing"}
\* A wrong has_non_loading, which holds of every snapshot
HasNonLoadingAlways(snapshot) == TRUE
HasNonLoading(snapshot) == \E id \in DOMAIN snapshot : snapshot[id].state # "Loading"

\* A wrong loop over has_non_stop_zones, which cancels nothing
CancelNothing(ts, pend, ids) == [tasks |-> ts, pending |-> pend]

\* for zone_id in &has_non_stop_zones: pending.remove(zone_id), task.abort()
RECURSIVE CancelStops(_, _, _)
CancelStops(ts, pend, ids) ==
    IF ids = {} THEN [tasks |-> ts, pending |-> pend]
    ELSE LET id == Min(ids) IN
         IF id \in pend
         THEN CancelStops(Abort(ts, id), pend \ {id}, ids \ {id})
         ELSE CancelStops(ts, pend, ids \ {id})

\* for zone_id in &has_stopped_zones: a pending entry is removed, aborted and
\* answered by a spawned broadcast (double stop); otherwise the delayed stop
\* task is spawned and inserted
RECURSIVE SettleStops(_, _, _)
SettleStops(ts, pend, ids) ==
    IF ids = {} THEN [tasks |-> ts, pending |-> pend]
    ELSE LET id == Min(ids) IN
         IF id \in pend
         THEN SettleStops(Spawn(Abort(ts, id), Task("imm", NoZone, "run")),
                          pend \ {id}, ids \ {id})
         ELSE SettleStops(Spawn(ts, Task("stop", id, "sleep")),
                          pend \cup {id}, ids \ {id})

\* A wrong broadcast decision, which spawns the broadcast whatever the snapshot
BroadcastAlways(ts, snapshot) == Spawn(ts, Task("imm", NoZone, "run"))

\* A wrong broadcast decision, which never waits for the dCS device
BroadcastUndelayed(ts, snapshot) ==
    IF NonStopZones(snapshot) # {} /\ HasNonLoading(snapshot)
    THEN Spawn(ts, Task("imm", NoZone, "run"))
    ELSE ts

\* if !has_non_stop_zones.is_empty() && has_non_loading: the dCS delay task
\* when a dCS zone is Playing, the spawned broadcast otherwise
BroadcastDecision(ts, snapshot) ==
    IF NonStopZones(snapshot) # {} /\ HasNonLoading(snapshot)
    THEN IF DcsPlayingZones(snapshot) # {}
         THEN Spawn(ts, Task("dcs", NoZone, "sleep"))
         ELSE Spawn(ts, Task("imm", NoZone, "run"))
    ELSE ts

\* The tasks and the pending table after the arm, from the snapshot it took.
Debounce(ts, pend, snapshot) ==
    LET c == CancelStops(ts, pend, NonStopZones(snapshot))
        s == SettleStops(c.tasks, c.pending, StoppedZones(snapshot))
    IN  [tasks |-> BroadcastDecision(s.tasks, snapshot), pending |-> s.pending]


(***************************************************************************)
(* History.  watch names the histories a specification keeps: "step"       *)
(* (lastStep), "sent" (sent), "solo" (solo and pubCount), "order"          *)
(* (evPublished and the tasks' fresh), "flicker" (flicker and stopSeen),   *)
(* "calls" (the callers' history), "ref" (ref); the history variables not  *)
(* kept stay as they start.                                                *)
(***************************************************************************)
NoTask == Task("none", NoZone, "none")

NoStep ==
    [kind |-> "none", batch |-> <<>>, ids |-> <<>>, seeks |-> <<>>,
     task |-> NoTask, sleeping |-> {}]

\* The stop task of zone id is in the table and still in its sleep
StopSleeping(id) ==
    /\ id \in pending_stops
    /\ \E t \in Held(tasks, id) : t.pc = "sleep"

\* The stop tasks in the table and still in their sleep
SleepingStops ==
    {t \in BagToSet(tasks) :
        t.kind = "stop" /\ t.held /\ t.pc = "sleep" /\ t.zone \in pending_stops}

\* The label of a step: the event consumed with its input and the stop tasks
\* that were asleep in the table when it was consumed, or the task step with
\* the task as it was
Step(kind, batch, ids, seeks, t) ==
    IF "step" \in watch
    THEN [kind |-> kind, batch |-> batch, ids |-> ids, seeks |-> seeks, task |-> t,
          sleeping |-> IF kind \in {"ZonesChanged", "ZonesRemoved"}
                       THEN SleepingStops
                       ELSE {}]
    ELSE NoStep

\* The state a batch reports for zone id (its last entry for id), or "Absent"
Reported(batch, id) == StateIn(UpsertAll(EmptyMap, batch), id)

\* Per zone: "P" after a batch reported it Playing, "PS" when the next batch
\* naming it reported it Stopped and for as long as the stop task scheduled
\* then is in the table, "PSP" when the next batch naming it reported it
\* Playing while that task was still in its sleep (less than the stop-settle
\* delay after the Stopped batch).  pend is the table after the batch.
FlickerAfter(batch, pend) ==
    [id \in ZoneIds |->
        LET r == Reported(batch, id) IN
        IF r = "Absent"
        THEN IF flicker[id] = "PS" /\ id \notin pend THEN "none" ELSE flicker[id]
        ELSE IF r = "Playing"
             THEN IF flicker[id] = "PS" /\ StopSleeping(id) THEN "PSP" ELSE "P"
        ELSE IF r = "Stopped" /\ flicker[id] \in {"P", "PSP"} THEN "PS"
        ELSE "none"]

\* stopSeen[id] is kept only inside a Playing/Stopped/Playing window
StopSeenAfter(batch, pend) ==
    [id \in ZoneIds |->
        IF Reported(batch, id) = "Absent" THEN stopSeen[id]
        ELSE FlickerAfter(batch, pend)[id] = "PSP" /\ stopSeen[id]]

\* The reference store: a list of zones in the order their ids first came,
\* kept by scanning.  An entry of the list with the id of z is replaced where
\* it stands, otherwise z is appended.
RECURSIVE RefUpsert(_, _)
RefUpsert(list, z) ==
    IF list = <<>> THEN <<z>>
    ELSE IF Head(list).zone_id = z.zone_id THEN <<z>> \o Tail(list)
    ELSE <<Head(list)>> \o RefUpsert(Tail(list), z)

RECURSIVE RefUpsertAll(_, _)
RefUpsertAll(list, batch) ==
    IF batch = <<>> THEN list
    ELSE RefUpsertAll(RefUpsert(list, Head(batch)), Tail(batch))

RefRemove(list, id) == SelectSeq(list, LAMBDA z : z.zone_id # id)

RECURSIVE RefRemoveAll(_, _)
RefRemoveAll(list, ids) ==
    IF ids = <<>> THEN list
    ELSE RefRemoveAll(RefRemove(list, Head(ids)), Tail(ids))

\* The position of an entry that has a now_playing descriptor is replaced
RefPatch(list, e) ==
    [i \in 1..Len(list) |->
        IF list[i].zone_id = e.zone_id /\ list[i].np
        THEN [list[i] EXCEPT !.seek = e.seek]
        ELSE list[i]]

RECURSIVE RefPatchAll(_, _)
RefPatchAll(list, seeks) ==
    IF seeks = <<>> THEN list
    ELSE RefPatchAll(RefPatch(list, Head(seeks)), Tail(seeks))

\* The store holds one zone, not a dCS one, Playing; nothing is pending and
\* no task is alive; the batch reports that zone Stopped and nothing else.
LoneStop(batch) ==
    /\ tasks = EmptyBag
    /\ pending_stops = {}
    /\ \E id \in ZoneIds :
          /\ ~IsDcs(id)
          /\ DOMAIN zones = {id}
          /\ zones[id].state = "Playing"
          /\ Len(batch) = 1
          /\ batch[1].zone_id = id
          /\ batch[1].state = "Stopped"

NoFlicker == [id \in ZoneIds |-> "none"]
NoStopSeen == [id \in ZoneIds |-> FALSE]
NoRequests == [k \in Keys |-> 0]

\* The history of an event consumed: msgs are the messages the loop sent
\* itself, lone says whether the event was the lone-zone stop
Consumed(kind, batch, ids, seeks, msgs, lone) ==
    /\ watch' = watch
    /\ lastStep' = Step(kind, batch, ids, seeks, NoTask)
    /\ sent' = IF "sent" \in watch THEN msgs ELSE <<>>
    /\ pubCount' = 0
    /\ evPublished' = ("order" \in watch /\ msgs # <<>>)
    /\ solo' = ("solo" \in watch /\ lone)
    /\ Broadcast(msgs)
    /\ UNCHANGED commands

\* The history of ws_tx.send by task t
Published(t) ==
    /\ watch' = watch
    /\ lastStep' = Step("Send", <<>>, <<>>, <<>>, t)
    /\ sent' = IF "sent" \in watch
               THEN <<Pub(ZonesChangedMsg(t.snap), FALSE, t.fresh, t.aborted)>>
               ELSE <<>>
    /\ Broadcast(<<Pub(ZonesChangedMsg(t.snap), FALSE, t.fresh, t.aborted)>>)
    /\ pubCount' = IF "solo" \in watch THEN pubCount + 1 ELSE 0
    /\ evPublished' = ("order" \in watch /\ (evPublished \/ t.fresh))
    /\ stopSeen' = [id \in ZoneIds |->
                      \/ stopSeen[id]
                      \/ /\ flicker[id] \in {"PS", "PSP"}
                         /\ StateIn(t.snap, id) = "Stopped"]
    /\ UNCHANGED <<solo, flicker, ref, commands>>

\* The history of a step of task t that publishes nothing.  A zone's
\* Playing/Stopped window ends when its entry leaves the table.
Silent(kind, t) ==
    /\ lastStep' = Step(kind, <<>>, <<>>, <<>>, t)
    /\ sent' = <<>>
    /\ flicker' = [id \in ZoneIds |->
                     IF kind = "SelfRemove" /\ id = t.zone /\ flicker[id] = "PS"
                     THEN "none" ELSE flicker[id]]
    /\ UNCHANGED <<watch, pubCount, evPublished, solo, stopSeen, ref, channelVars,
                   commands, guards>>

(***************************************************************************)
(* The event loop: one action per (core_event, msg) consumed.              *)
(***************************************************************************)
\* A client that has asked for no queue yet.  pc: "idle", "called" (waiting
\* for the client mutex), "check" (in subscribe_to_queue, holding the read
\* guard of transport_service), "write" (slot read and its guard dropped),
\* "dropped" (slot updated and its write guard dropped), "wait" (the
\* notified() future exists, inside the timeout).  The rest is history, kept
\* under watch "calls": the slot when the request was made, the upstream
\* calls issued, the outcome, and the same of the request before; and kept
\* under watch "items": whether a queue snapshot was consumed after the slot
\* was updated and before the call returned, and the items queue_handler
\* read when the call had returned.
NoCall ==
    [pc |-> "idle", zone |-> NoZone, woken |-> FALSE, slot_at_call |-> NoZone,
     issued |-> <<>>, outcome |-> "none", arrived |-> FALSE, items |-> <<>>,
     prev |-> [zone |-> NoZone, slot_at_call |-> NoZone, issued |-> <<>>,
               outcome |-> "none"]]

(***************************************************************************)
(* The guards.  The tasks that take them: the event loop, a spawned stop   *)
(* task, and two request handlers of the server, which call the client     *)
(* under state.roon_client.lock().  Each runs a program at a time, a list  *)
(* of the acquisitions, releases and other awaits of a piece of code in    *)
(* the order of the source.  tokio's RwLock and Mutex grant in the order   *)
(* of the requests: a read waits behind a write that waits.                *)
(***************************************************************************)
Procs == {"loop", "task", "h1", "h2"}
Handlers == {"h1", "h2"}
Locks == {"client", "zones", "images", "queues", "slot", "transport", "pending"}

Acq(l, m) == [op |-> "acq", lock |-> l, mode |-> m]
Rel(l) == [op |-> "rel", lock |-> l, mode |-> "-"]
\* An await that takes no guard: a call of the core, a sleep, the rendezvous
\* with its timeout
Await == [op |-> "await", lock |-> "-", mode |-> "-"]

\* No task has started, no guard is held
GuardsIdle ==
    [pc |-> [p \in Procs |-> 0], prog |-> [p \in Procs |-> "none"],
     waiting |-> [p \in Procs |-> FALSE],
     held |-> [l \in Locks |-> {}], queue |-> [l \in Locks |-> <<>>]]

\* RoonClient::new and connect, with n clients asking for queues and m
\* receivers of the broadcast channel to come
InitChannel(w, n, m) ==
    /\ guards = GuardsIdle
    /\ receivers = [s \in 1..m |-> NoReceiver]
    /\ ws_tx = [cap |-> WsCapacity, tail |-> 0, buf |-> <<>>]
    /\ published = <<>>
    /\ watch = w
    /\ zones = EmptyMap
    /\ pending_stops = {}
    /\ tasks = EmptyBag
    /\ connected = FALSE
    /\ core_name = FALSE
    /\ transport_service = FALSE
    /\ image_service = FALSE
    /\ browse_service = FALSE
    /\ images = {}
    /\ image_requests = NoRequests
    /\ active_queue_zone = NoZone
    /\ queues = EmptyMap
    /\ upstream = <<>>
    /\ due = {}
    /\ stale = {}
    /\ callers = [c \in 1..n |-> NoCall]
    /\ loop_pc = "idle"
    /\ invocations = 0
    /\ commands = 0
    /\ lastStep = NoStep
    /\ sent = <<>>
    /\ pubCount = 0
    /\ evPublished = FALSE
    /\ solo = FALSE
    /\ flicker = NoFlicker
    /\ stopSeen = NoStopSeen
    /\ ref = <<>>

InitWith(w, n) == InitChannel(w, n, 0)

InitWatching(w) == InitWith(w, 0)

\* CoreEvent::Registered: has_t, has_i, has_b say which services the core has
Registered(has_t, has_i, has_b) ==
    /\ loop_pc = "idle"
    /\ ~connected
    /\ connected' = TRUE
    /\ core_name' = TRUE
    /\ transport_service' = (has_t \/ transport_service)
    /\ image_service' = (has_i \/ image_service)
    /\ browse_service' = (has_b \/ browse_service)
    /\ tasks' = MarkOld(tasks)
    /\ Consumed("Registered", <<>>, <<>>, <<>>,
                <<Pub(ConnectionChangedMsg(TRUE), TRUE, TRUE, "no")>>, FALSE)
    /\ UNCHANGED <<zones, pending_stops, images, image_requests, flicker, stopSeen,
                   ref>>
    /\ UNCHANGED <<queueVars, loop_pc>>

\* The callers holding a read guard of transport_service: subscribe_to_queue
\* keeps it from its first line to its return
TransportReaders ==
    {c \in DOMAIN callers : callers[c].pc \in {"check", "write", "dropped", "wait"}}

\* A wrong Lost arm, which keeps the zones
LostKeepsZones ==
    /\ loop_pc = "idle"
    /\ connected
    /\ TransportReaders = {}
    /\ connected' = FALSE
    /\ core_name' = FALSE
    /\ image_service' = FALSE
    /\ transport_service' = FALSE
    /\ browse_service' = FALSE
    /\ image_requests' = NoRequests
    /\ upstream' = <<>>
    /\ due' = {}
    /\ stale' = {}
    /\ tasks' = MarkOld(tasks)
    /\ Consumed("Lost", <<>>, <<>>, <<>>,
                <<Pub(ConnectionChangedMsg(FALSE), TRUE, TRUE, "no")>>, FALSE)
    /\ flicker' = NoFlicker
    /\ stopSeen' = NoStopSeen
    /\ ref' = <<>>
    /\ UNCHANGED <<pending_stops, images, active_queue_zone, queues, callers,
                   loop_pc, invocations, zones>>

\* A wrong Lost arm, which keeps the name of the core
LostNamed ==
    /\ loop_pc = "idle"
    /\ connected
    /\ TransportReaders = {}
    /\ connected' = FALSE
    /\ zones' = EmptyMap
    /\ image_service' = FALSE
    /\ transport_service' = FALSE
    /\ browse_service' = FALSE
    /\ image_requests' = NoRequests
    /\ upstream' = <<>>
    /\ due' = {}
    /\ stale' = {}
    /\ tasks' = MarkOld(tasks)
    /\ Consumed("Lost", <<>>, <<>>, <<>>,
                <<Pub(ConnectionChangedMsg(FALSE), TRUE, TRUE, "no")>>, FALSE)
    /\ flicker' = NoFlicker
    /\ stopSeen' = NoStopSeen
    /\ ref' = <<>>
    /\ UNCHANGED <<pending_stops, images, active_queue_zone, queues, callers,
                   loop_pc, invocations, core_name>>

\* CoreEvent::Lost, the whole arm: no read guard of transport_service is out,
\* so transport_service.write() is granted at once
Lost ==
    /\ loop_pc = "idle"
    /\ connected
    /\ TransportReaders = {}
    /\ connected' = FALSE
    /\ core_name' = FALSE
    /\ zones' = EmptyMap
    /\ image_service' = FALSE
    /\ transport_service' = FALSE
    /\ browse_service' = FALSE
    /\ image_requests' = NoRequests
    /\ upstream' = <<>>
    /\ due' = {}
    /\ stale' = {}
    /\ tasks' = MarkOld(tasks)
    /\ Consumed("Lost", <<>>, <<>>, <<>>,
                <<Pub(ConnectionChangedMsg(FALSE), TRUE, TRUE, "no")>>, FALSE)
    /\ flicker' = NoFlicker
    /\ stopSeen' = NoStopSeen
    /\ ref' = <<>>
    /\ UNCHANGED <<pending_stops, images, active_queue_zone, queues, callers,
                   loop_pc, invocations>>

\* Parsed::Zones(zones_changed)
ZonesChanged(batch) ==
    LET keys == ImageKeysToRequest(batch, images)
        d == Debounce(MarkOld(tasks), pending_stops, UpsertAll(zones, batch))
    IN  /\ loop_pc = "idle"
        /\ connected
        /\ BagCardinality(d.tasks) <= MaxTasks
        /\ zones' = UpsertAll(zones, batch)
        /\ image_requests' = IF keys # <<>> /\ image_service
                             THEN RequestImages(image_requests, keys)
                             ELSE image_requests
        /\ \A k \in Keys : image_requests'[k] <= MaxRequests
        /\ tasks' = d.tasks
        /\ pending_stops' = d.pending
        /\ Consumed("ZonesChanged", batch, <<>>, <<>>, <<>>, LoneStop(batch))
        /\ flicker' = IF "flicker" \in watch
                       THEN FlickerAfter(batch, d.pending) ELSE flicker
        /\ stopSeen' = IF "flicker" \in watch
                        THEN StopSeenAfter(batch, d.pending) ELSE stopSeen
        /\ ref' = IF "ref" \in watch THEN RefUpsertAll(ref, batch) ELSE ref
        /\ UNCHANGED <<connected, core_name, transport_service, image_service,
                       browse_service, images>>
        /\ UNCHANGED <<queueVars, loop_pc>>

\* A wrong removal broadcast, which waits like the dCS delay task
RemovalTaskDelayed(ids) == Task("dcs", NoZone, "sleep")

\* The task the ZonesRemoved arm spawns: build the payload, send it
RemovalTask(ids) ==
    [Task("imm", NoZone, "run") EXCEPT
        !.gone = IF "gone" \in watch THEN {ids[i] : i \in 1..Len(ids)} ELSE {}]

\* Parsed::ZonesRemoved(zones_removed)
ZonesRemoved(ids) ==
    LET ts == Spawn(MarkOld(tasks), RemovalTask(ids))
        gone == {ids[i] : i \in 1..Len(ids)}
    IN  /\ loop_pc = "idle"
        /\ connected
        /\ BagCardinality(ts) <= MaxTasks
        /\ zones' = RemoveAll(zones, ids)
        /\ tasks' = ts
        /\ Consumed("ZonesRemoved", <<>>, ids, <<>>, <<>>, FALSE)
        /\ flicker' = [id \in ZoneIds |-> IF id \in gone THEN "none" ELSE flicker[id]]
        /\ stopSeen' = [id \in ZoneIds |-> id \notin gone /\ stopSeen[id]]
        /\ ref' = IF "ref" \in watch THEN RefRemoveAll(ref, ids) ELSE ref
        /\ UNCHANGED <<pending_stops, connected, core_name, transport_service,
                       image_service, browse_service, images, image_requests>>
        /\ UNCHANGED <<queueVars, loop_pc>>

\* A wrong loop, which sends one SeekUpdated for the entries that patched a zone
RECURSIVE SeekMessagesPatched(_)
SeekMessagesPatched(seeks) ==
    IF seeks = <<>> THEN <<>>
    ELSE (IF Head(seeks).zone_id \in DOMAIN zones
          THEN <<Pub(SeekUpdatedMsg(Head(seeks).zone_id, Head(seeks).seek,
                                    Head(seeks).qtr), TRUE, TRUE, "no")>>
          ELSE <<>>) \o SeekMessagesPatched(Tail(seeks))

\* ws_tx.send(WsMessage::SeekUpdated {..}) for each entry, in batch order
RECURSIVE SeekMessages(_)
SeekMessages(seeks) ==
    IF seeks = <<>> THEN <<>>
    ELSE <<Pub(SeekUpdatedMsg(Head(seeks).zone_id, Head(seeks).seek, Head(seeks).qtr),
               TRUE, TRUE, "no")>> \o SeekMessages(Tail(seeks))

\* Parsed::ZonesSeek(zones_seek)
ZonesSeek(seeks) ==
    /\ loop_pc = "idle"
    /\ connected
    /\ zones' = PatchAll(zones, seeks)
    /\ tasks' = MarkOld(tasks)
    /\ Consumed("ZonesSeek", <<>>, <<>>, seeks, SeekMessages(seeks), FALSE)
    /\ ref' = IF "ref" \in watch THEN RefPatchAll(ref, seeks) ELSE ref
    /\ UNCHANGED <<pending_stops, connected, core_name, transport_service,
                   image_service, browse_service, images, image_requests,
                   flicker, stopSeen>>
    /\ UNCHANGED <<queueVars, loop_pc>>

\* Parsed::Jpeg((image_key, data)) and Parsed::Png((image_key, data)): the
\* answer to one get_image call
ImageArrives(k) ==
    /\ loop_pc = "idle"
    /\ connected
    /\ image_requests[k] > 0
    /\ images' = images \cup {k}
    /\ image_requests' = [image_requests EXCEPT ![k] = @ - 1]
    /\ tasks' = MarkOld(tasks)
    /\ Consumed("Image", <<>>, <<>>, <<>>, <<>>, FALSE)
    /\ UNCHANGED <<zones, pending_stops, connected, core_name, transport_service,
                   image_service, browse_service, flicker, stopSeen, ref>>
    /\ UNCHANGED <<queueVars, loop_pc>>

(***************************************************************************)
(* The spawned tasks, one action per step of a task t.                     *)
(***************************************************************************)
Becomes(t, u) == (tasks (-) One(t)) (+) One(u)

\* tokio::time::sleep(..).await returns
TimerFire(t) ==
    /\ t.pc = "sleep"
    /\ tasks' = Becomes(t, [t EXCEPT !.pc = "run"])
    /\ Silent("TimerFire", t)
    /\ UNCHANGED <<zones, pending_stops, connected, core_name, transport_service,
                   image_service, browse_service, images, image_requests>>
    /\ UNCHANGED <<queueVars, loop_pc>>

\* The tasks that may hold a payload built and not yet sent at one time: one
\* more where the ZonesChanged published last is kept
BuiltAtOnce == IF "last" \in watch THEN MaxBuilt + 1 ELSE MaxBuilt

\* A wrong build, which leaves the task with what it held when it was spawned
BuildUnread(t) ==
    /\ t.pc = "run"
    /\ Cardinality({u \in BagToSet(tasks) : u.pc = "built"}) < BuiltAtOnce
    /\ tasks' = Becomes(t, [t EXCEPT !.pc = "built"])
    /\ Silent("Build", t)
    /\ UNCHANGED <<zones, pending_stops, connected, core_name, transport_service,
                   image_service, browse_service, images, image_requests>>
    /\ UNCHANGED <<queueVars, loop_pc>>

\* build_ws_zone_data_from_zones(zones_clone, ..).await: the store as it is now
Build(t) ==
    /\ t.pc = "run"
    /\ Cardinality({u \in BagToSet(tasks) : u.pc = "built"}) < BuiltAtOnce
    /\ tasks' = Becomes(t, [t EXCEPT !.pc = "built", !.snap = zones])
    /\ Silent("Build", t)
    /\ UNCHANGED <<zones, pending_stops, connected, core_name, transport_service,
                   image_service, browse_service, images, image_requests>>
    /\ UNCHANGED <<queueVars, loop_pc>>

\* ws_tx_clone.send(WsMessage::ZonesChanged {..}); the dCS task and the
\* spawned broadcast end here
Send(t) ==
    /\ t.pc = "built"
    /\ Published(t)
    /\ tasks' = IF t.kind = "stop"
                THEN Becomes(t, [t EXCEPT !.pc = "sent", !.snap = EmptyMap])
                ELSE tasks (-) One(t)
    /\ UNCHANGED <<zones, pending_stops, connected, core_name, transport_service,
                   image_service, browse_service, images, image_requests>>
    /\ UNCHANGED <<queueVars, loop_pc>>

\* A wrong end of the stop task, which leaves the table alone
SelfRemoveForgets(t) ==
    /\ t.kind = "stop"
    /\ t.pc = "sent"
    /\ tasks' = tasks (-) One(t)
    /\ Silent("SelfRemove", t)
    /\ UNCHANGED <<zones, pending_stops, connected, core_name, transport_service,
                   image_service, browse_service, images, image_requests>>
    /\ UNCHANGED <<queueVars, loop_pc>>

\* pending_stops_clone2.lock().await.remove(&zone_id_clone): whatever entry
\* the table holds for the zone, its own or a later task's
SelfRemove(t) ==
    /\ t.kind = "stop"
    /\ t.pc = "sent"
    /\ pending_stops' = pending_stops \ {t.zone}
    /\ tasks' = Unhold(tasks (-) One(t), t.zone)
    /\ Silent("SelfRemove", t)
    /\ UNCHANGED <<zones, connected, core_name, transport_service,
                   image_service, browse_service, images, image_requests>>
    /\ UNCHANGED <<queueVars, loop_pc>>

\* An aborted task is dropped where it returns Pending: before its first poll
\* after the sleep or on the store's guard ("run"), in dcs::get_playback_info
\* or on the guard of zones_raw_json ("built"), or on the table's guard
\* ("sent").  Where nothing returns Pending it runs on.
Die(t) ==
    /\ t.aborted # "no"
    /\ t.pc \in {"run", "built", "sent"}
    /\ tasks' = tasks (-) One(t)
    /\ Silent("Die", t)
    /\ UNCHANGED <<zones, pending_stops, connected, core_name, transport_service,
                   image_service, browse_service, images, image_requests>>
    /\ UNCHANGED <<queueVars, loop_pc>>

TaskStep ==
    \E t \in BagToSet(tasks) :
        TimerFire(t) \/ Build(t) \/ Send(t) \/ SelfRemove(t) \/ Die(t)

(***************************************************************************)
(* The queue subscription: the Lost arm when a caller holds the read guard *)
(* of transport_service, Parsed::Queue, and queue_handler with             *)
(* RoonClient::subscribe_to_queue, one action per step of a caller c.      *)
(***************************************************************************)
\* The history of a step that consumes no event and publishes msgs
Continued(kind, msgs) ==
    /\ lastStep' = Step(kind, <<>>, <<>>, <<>>, NoTask)
    /\ sent' = IF "sent" \in watch THEN msgs ELSE <<>>
    /\ evPublished' = ("order" \in watch /\ (evPublished \/ msgs # <<>>))
    /\ Broadcast(msgs)
    /\ UNCHANGED <<watch, pubCount, solo, flicker, stopSeen, ref, commands>>

\* CoreEvent::Lost up to *transport_service.write().await, which waits for
\* the read guard a caller of subscribe_to_queue holds
LostBlocked ==
    /\ loop_pc = "idle"
    /\ connected
    /\ TransportReaders # {}
    /\ connected' = FALSE
    /\ core_name' = FALSE
    /\ zones' = EmptyMap
    /\ image_service' = FALSE
    /\ image_requests' = NoRequests
    /\ upstream' = <<>>
    /\ due' = {}
    /\ stale' = {}
    /\ loop_pc' = "lost"
    /\ tasks' = MarkOld(tasks)
    /\ Consumed("Lost", <<>>, <<>>, <<>>, <<>>, FALSE)
    /\ flicker' = NoFlicker
    /\ stopSeen' = NoStopSeen
    /\ ref' = <<>>
    /\ UNCHANGED <<pending_stops, transport_service, browse_service, images,
                   active_queue_zone, queues, callers, invocations>>

\* CoreEvent::Lost from the granted transport_service.write() on
LostResume ==
    /\ loop_pc = "lost"
    /\ TransportReaders = {}
    /\ transport_service' = FALSE
    /\ browse_service' = FALSE
    /\ loop_pc' = "idle"
    /\ Continued("LostResume", <<Pub(ConnectionChangedMsg(FALSE), TRUE, TRUE, "no")>>)
    /\ UNCHANGED <<zones, pending_stops, tasks, connected, core_name, image_service,
                   images, image_requests, queueVars>>

\* queue_ready.notify_waiters(): every notified() future that exists is woken
NotifyWaiters(cs) ==
    [c \in DOMAIN cs |->
        LET r == IF "items" \in watch /\ cs[c].pc \in {"dropped", "wait"}
                 THEN [cs[c] EXCEPT !.arrived = TRUE] ELSE cs[c]
        IN  IF r.pc = "wait" THEN [r EXCEPT !.woken = TRUE] ELSE r]

\* Parsed::Queue(queue_items): the snapshot the core sends for its
\* subscription to the queue of zone u
QueueSnapshot(u, queue_items) ==
    /\ loop_pc = "idle"
    /\ connected
    /\ u \in due
    /\ due' = due \ {u}
    /\ IF active_queue_zone # NoZone
       THEN /\ queues' = MapInsert(queues, active_queue_zone, queue_items)
            /\ callers' = NotifyWaiters(callers)
       ELSE UNCHANGED <<queues, callers>>
    /\ tasks' = MarkOld(tasks)
    /\ Consumed("Queue", queue_items, <<u>>, <<>>, <<>>, FALSE)
    /\ UNCHANGED <<zones, pending_stops, connected, core_name, transport_service,
                   image_service, browse_service, images, image_requests,
                   active_queue_zone, upstream, stale, loop_pc, invocations,
                   flicker, stopSeen, ref>>

\* count: None
NoCount == 0 - 1

\* A QueueChange: items is Some(items) when has_items, count is Some(count)
\* unless NoCount
Change(op, idx, has_items, items, count) ==
    [operation |-> op, index |-> idx, has_items |-> has_items, items |-> items,
     count |-> count]

\* Vec::insert(index, item), indices from 0: panics when index > len
VecInsert(queue, index, item) ==
    IF index > Len(queue) THEN [queue |-> queue, panicked |-> TRUE]
    ELSE [queue |-> SubSeq(queue, 1, index) \o <<item>>
                     \o SubSeq(queue, index + 1, Len(queue)),
          panicked |-> FALSE]

\* for (i, item) in items.iter().enumerate() { queue.insert(idx + i, item) }
RECURSIVE InsertItems(_, _, _)
InsertItems(queue, idx, items) ==
    IF items = <<>> THEN [queue |-> queue, panicked |-> FALSE]
    ELSE LET r == VecInsert(queue, idx, Head(items)) IN
         IF r.panicked THEN r ELSE InsertItems(r.queue, idx + 1, Tail(items))

\* for _ in 0..count { if idx < queue.len() { queue.remove(idx); } }
RECURSIVE RemoveItems(_, _, _)
RemoveItems(queue, idx, count) ==
    IF count = 0 \/ idx >= Len(queue) THEN queue
    ELSE RemoveItems(SubSeq(queue, 1, idx) \o SubSeq(queue, idx + 2, Len(queue)),
                     idx, count - 1)

\* match change.operation { Insert => .., Remove => .. }
ApplyChange(queue, change) ==
    IF change.operation = "Insert"
    THEN IF change.has_items THEN InsertItems(queue, change.index, change.items)
         ELSE [queue |-> queue, panicked |-> FALSE]
    ELSE [queue |-> RemoveItems(queue, change.index,
                                IF change.count = NoCount THEN 1 ELSE change.count),
          panicked |-> FALSE]

\* for change in queue_changes { .. }: a panic ends the loop where it happens
RECURSIVE ApplyChanges(_, _)
ApplyChanges(queue, queue_changes) ==
    IF queue_changes = <<>> THEN [queue |-> queue, panicked |-> FALSE]
    ELSE LET r == ApplyChange(queue, Head(queue_changes)) IN
         IF r.panicked THEN r ELSE ApplyChanges(r.queue, Tail(queue_changes))

\* The zones the core holds a queue subscription of ours for
Subscribed(subs) == {subs[i] : i \in 1..Len(subs)}

\* Parsed::QueueChanges(queue_changes): the deltas the core sends for its
\* subscription to the queue of zone u, or sent for it before the
\* subscription ended.  The event names no zone.  A panic ends the task of
\* the loop.
QueueChanges(u, queue_changes) ==
    LET cached == active_queue_zone # NoZone /\ active_queue_zone \in DOMAIN queues
        r == IF cached THEN ApplyChanges(queues[active_queue_zone], queue_changes)
             ELSE [queue |-> <<>>, panicked |-> FALSE]
    IN  /\ loop_pc = "idle"
        /\ connected
        /\ u \in Subscribed(upstream) \cup stale
        /\ stale' = IF u \in Subscribed(upstream) THEN stale ELSE stale \ {u}
        /\ Len(r.queue) <= MaxQueueLen
        /\ queues' = IF cached THEN [queues EXCEPT ![active_queue_zone] = r.queue]
                     ELSE queues
        /\ loop_pc' = IF r.panicked THEN "dead" ELSE "idle"
        /\ tasks' = MarkOld(tasks)
        /\ Consumed("QueueChanges", queue_changes, <<u>>, <<>>,
                    IF cached /\ ~r.panicked
                    THEN <<Pub(QueueChangedMsg(active_queue_zone), TRUE, TRUE, "no")>>
                    ELSE <<>>,
                    FALSE)
        /\ UNCHANGED <<zones, pending_stops, connected, core_name, transport_service,
                       image_service, browse_service, images, image_requests,
                       active_queue_zone, upstream, due, callers, invocations,
                       flicker, stopSeen, ref>>

\* A value of the callers' history, kept under watch "calls"
Kept(x, none) == IF "calls" \in watch THEN x ELSE none

UnsubscribeQueue == [call |-> "unsubscribe_queue", zone_id |-> NoZone]
SubscribeQueue(z) == [call |-> "subscribe_queue", zone_id |-> z]

\* The callers' steps change nothing of the engine
CallerStep(kind) ==
    /\ Continued(kind, <<>>)
    /\ UNCHANGED <<zones, pending_stops, tasks, connected, core_name,
                   transport_service, image_service, browse_service, images,
                   image_requests, queues, loop_pc>>

\* RoonClient::get_queue: queues.get(zone_id).cloned(), with the items
\* unwrap_or_default() makes of it
get_queue(qs, zone_id) ==
    IF zone_id \in DOMAIN qs THEN [some |-> TRUE, items |-> qs[zone_id]]
    ELSE [some |-> FALSE, items |-> <<>>]

\* subscribe_to_queue returns; queue_handler reads the queue and drops the
\* client mutex
Returned(r, outcome) ==
    [r EXCEPT !.pc = "idle", !.woken = FALSE, !.outcome = Kept(outcome, "none"),
              !.items = IF "items" \in watch THEN get_queue(queues, r.zone).items
                        ELSE <<>>]

\* A request GET /queue/:zone_id arrives (queue_handler is called)
QueueRequest(c, z) ==
    /\ callers[c].pc = "idle"
    /\ invocations < MaxCalls
    /\ invocations' = invocations + 1
    /\ callers' = [callers EXCEPT ![c] =
          [pc |-> "called", zone |-> z, woken |-> FALSE, slot_at_call |-> NoZone,
           issued |-> <<>>, outcome |-> "none", arrived |-> FALSE, items |-> <<>>,
           prev |-> Kept([zone |-> @.zone, slot_at_call |-> @.slot_at_call,
                          issued |-> @.issued, outcome |-> @.outcome],
                         NoCall.prev)]]
    /\ CallerStep("QueueRequest")
    /\ UNCHANGED <<active_queue_zone, upstream, stale, due>>

\* state.roon_client.lock().await is granted, subscribe_to_queue is called and
\* its transport_service.read().await is granted (a read waits behind a
\* waiting write); without a transport service it returns at once
SubscribeEnter(c) ==
    /\ callers[c].pc = "called"
    /\ \A d \in DOMAIN callers : d # c => callers[d].pc \in {"idle", "called"}
    /\ loop_pc # "lost"
    /\ callers' = [callers EXCEPT ![c] =
          IF transport_service
          THEN [@ EXCEPT !.pc = "check",
                         !.slot_at_call = Kept(active_queue_zone, NoZone)]
          ELSE Returned([@ EXCEPT !.slot_at_call = Kept(active_queue_zone, NoZone)],
                        "unavailable")]
    /\ CallerStep("SubscribeEnter")
    /\ UNCHANGED <<active_queue_zone, upstream, stale, due, invocations>>

\* A wrong check, which never finds the zone subscribed already
SubscribeCheckNever(c) ==
    /\ callers[c].pc = "check"
    /\ callers' = [callers EXCEPT ![c] = [@ EXCEPT !.pc = "write"]]
    /\ CallerStep("SubscribeCheck")
    /\ UNCHANGED <<active_queue_zone, upstream, stale, due, invocations>>

\* if current_zone.as_deref() == Some(zone_id) { return; } drop(current_zone)
SubscribeCheck(c) ==
    /\ callers[c].pc = "check"
    /\ callers' = [callers EXCEPT ![c] =
          IF active_queue_zone = @.zone THEN Returned(@, "already")
          ELSE [@ EXCEPT !.pc = "write"]]
    /\ CallerStep("SubscribeCheck")
    /\ UNCHANGED <<active_queue_zone, upstream, stale, due, invocations>>

\* transport.unsubscribe_queue(): the core drops our queue subscription
Unsubscribed(subs) == IF subs = <<>> THEN <<>> ELSE SubSeq(subs, 1, Len(subs) - 1)

\* The zone of the subscription transport.unsubscribe_queue() ends: its
\* deltas sent before may still arrive
Ended(subs) == IF subs = <<>> THEN {} ELSE {subs[Len(subs)]}

\* A wrong switch, which subscribes without unsubscribing first
SubscribeSwitchOnly(c) ==
    /\ callers[c].pc = "write"
    /\ stale' = stale
    /\ upstream' = IF connected THEN Append(upstream, callers[c].zone) ELSE upstream
    /\ due' = IF connected THEN due \cup {callers[c].zone} ELSE due
    /\ active_queue_zone' = callers[c].zone
    /\ callers' = [callers EXCEPT ![c] =
          [@ EXCEPT !.pc = "dropped",
                    !.issued = Kept(@ \o <<SubscribeQueue(callers[c].zone)>>, <<>>)]]
    /\ CallerStep("SubscribeSwitch")
    /\ UNCHANGED invocations

\* Under the write guard of active_queue_zone: unsubscribe_queue if the slot
\* is Some, subscribe_queue(zone_id, 50), *active_zone = Some(zone_id), drop.
\* The calls reach the core only while the connection is there.
SubscribeSwitch(c) ==
    LET z == callers[c].zone
        calls == (IF active_queue_zone # NoZone THEN <<UnsubscribeQueue>> ELSE <<>>)
                 \o <<SubscribeQueue(z)>>
    IN  /\ callers[c].pc = "write"
        /\ upstream' = IF ~connected THEN upstream
                       ELSE Append(IF active_queue_zone # NoZone
                                   THEN Unsubscribed(upstream) ELSE upstream, z)
        /\ due' = IF connected THEN due \cup {z} ELSE due
        /\ stale' = IF connected /\ active_queue_zone # NoZone
                     THEN stale \cup Ended(upstream) ELSE stale
        /\ active_queue_zone' = z
        /\ callers' = [callers EXCEPT ![c] =
              [@ EXCEPT !.pc = "dropped", !.issued = Kept(@ \o calls, <<>>)]]
        /\ CallerStep("SubscribeSwitch")
        /\ UNCHANGED invocations

\* self.queue_ready.notified(): from here on notify_waiters wakes the caller
SubscribeNotified(c) ==
    /\ callers[c].pc = "dropped"
    /\ callers' = [callers EXCEPT ![c] = [@ EXCEPT !.pc = "wait", !.woken = FALSE]]
    /\ CallerStep("SubscribeNotified")
    /\ UNCHANGED <<active_queue_zone, upstream, stale, due, invocations>>

\* tokio::time::timeout(..).await is Ok(_)
SubscribeWoken(c) ==
    /\ callers[c].pc = "wait"
    /\ callers[c].woken
    /\ callers' = [callers EXCEPT ![c] = Returned(@, "notified")]
    /\ CallerStep("SubscribeWoken")
    /\ UNCHANGED <<active_queue_zone, upstream, stale, due, invocations>>

\* tokio::time::timeout(..).await is Err(_): 2 seconds without a wake-up
SubscribeTimeout(c) ==
    /\ callers[c].pc = "wait"
    /\ ~callers[c].woken
    /\ callers' = [callers EXCEPT ![c] = Returned(@, "timeout")]
    /\ CallerStep("SubscribeTimeout")
    /\ UNCHANGED <<active_queue_zone, upstream, stale, due, invocations>>

\* A wrong arm, which ends the loop at a payload it does not handle
IgnoredFatal(kind) ==
    /\ loop_pc = "idle"
    /\ loop_pc' = "dead"
    /\ tasks' = MarkOld(tasks)
    /\ Consumed(kind, <<>>, <<>>, <<>>, <<>>, FALSE)
    /\ UNCHANGED <<zones, pending_stops, connected, core_name, transport_service,
                   image_service, browse_service, images, image_requests,
                   queueVars, flicker, stopSeen, ref>>

\* Parsed::Error(err), which is logged, and every payload of another kind
\* (_ => {}): the iteration of the loop ends and the next recv follows
Ignored(kind) ==
    /\ loop_pc = "idle"
    /\ tasks' = MarkOld(tasks)
    /\ Consumed(kind, <<>>, <<>>, <<>>, <<>>, FALSE)
    /\ UNCHANGED <<zones, pending_stops, connected, core_name, transport_service,
                   image_service, browse_service, images, image_requests,
                   queueVars, loop_pc, flicker, stopSeen, ref>>

(***************************************************************************)
(* The action calls: control_handler, seek_handler, mute_handler and       *)
(* play_from_queue_handler with the RoonClient function each calls, one    *)
(* action per call.                                                        *)
(***************************************************************************)
\* The strings control_zone matches
Controls == {"play", "pause", "playpause", "stop", "previous", "next"}

\* The command strings a request carries: one control_zone knows, one it
\* does not know
ControlInputs == {"play", "rewind"}

ActionCalls == {"control_zone", "play_from_queue_item", "seek_zone", "mute_output"}

\* What the caller gets and what the core is asked: Err(e) and no request, or
\* Ok(()) and the request made of the transport service
Failed(e) == [result |-> e, requests |-> <<>>]
Sent(request, target, arg) ==
    [result |-> "Ok",
     requests |-> <<[request |-> request, target |-> target, arg |-> arg]>>]

\* A wrong call, which tells the viewers of a transport request it has made
CalledAloud(call, zone_id, arg, r) ==
    /\ \A c \in DOMAIN callers : callers[c].pc \in {"idle", "called"}
    /\ loop_pc # "lost"
    /\ commands + Len(r.requests) <= MaxCommands
    /\ commands' = commands + Len(r.requests)
    /\ lastStep' = Step(call, <<[arg |-> arg, result |-> r.result,
                                 requests |-> r.requests]>>,
                        <<zone_id>>, <<>>, NoTask)
    /\ sent' = IF "sent" \in watch /\ r.result = "Ok"
               THEN <<Pub(ConnectionChangedMsg(connected), TRUE, TRUE, "no")>>
               ELSE <<>>
    /\ Broadcast(<<>>)
    /\ UNCHANGED <<progVars, watch, pubCount, evPublished, solo, flicker,
                   stopSeen, ref>>

\* An action call as a whole: state.roon_client.lock().await is granted (no
\* request for a queue holds the client mutex), the function runs holding
\* read guards only (a read of transport_service waits behind a waiting
\* write) and returns r.result after asking the core r.requests
Called(call, zone_id, arg, r) ==
    /\ \A c \in DOMAIN callers : callers[c].pc \in {"idle", "called"}
    /\ loop_pc # "lost"
    /\ commands + Len(r.requests) <= MaxCommands
    /\ commands' = commands + Len(r.requests)
    /\ lastStep' = Step(call, <<[arg |-> arg, result |-> r.result,
                                 requests |-> r.requests]>>,
                        <<zone_id>>, <<>>, NoTask)
    /\ sent' = <<>>
    /\ Broadcast(<<>>)
    /\ UNCHANGED <<progVars, watch, pubCount, evPublished, solo, flicker,
                   stopSeen, ref>>

\* A wrong control_zone, which passes any command string on
control_zone_unchecked(zone_id, control) ==
    Called("control_zone", zone_id, control,
           IF transport_service THEN Sent("control", zone_id, control)
           ELSE Failed("Transport service not available"))

\* RoonClient::control_zone
control_zone(zone_id, control) ==
    Called("control_zone", zone_id, control,
           IF transport_service
           THEN IF control \in Controls THEN Sent("control", zone_id, control)
                ELSE Failed("Invalid control")
           ELSE Failed("Transport service not available"))

\* RoonClient::play_from_queue_item
play_from_queue_item(zone_id, queue_item_id) ==
    Called("play_from_queue_item", zone_id, queue_item_id,
           IF transport_service THEN Sent("play_from_here", zone_id, queue_item_id)
           ELSE Failed("Transport service not available"))

\* RoonClient::seek_zone: Seek::Absolute
seek_zone(zone_id, seconds) ==
    Called("seek_zone", zone_id, seconds,
           IF transport_service THEN Sent("seek", zone_id, seconds)
           ELSE Failed("Transport service not available"))

\* zone.outputs[0].output_id of a zone with outputs
OutputOf(zone_id) == zone_id

\* RoonClient::mute_output: the zone is looked up first; outputs is
\* zone.outputs.len() of the zone as stored, which the store of the model
\* does not keep
mute_output(zone_id, mute, outputs) ==
    Called("mute_output", zone_id, [mute |-> mute, outputs |-> outputs],
           IF zone_id \notin DOMAIN zones THEN Failed("Zone not found")
           ELSE IF outputs = 0 THEN Failed("Zone has no outputs")
           ELSE IF transport_service THEN Sent("mute", OutputOf(zone_id), mute)
           ELSE Failed("Transport service not available"))

(***************************************************************************)
(* The receivers of the broadcast channel: handle_socket (one per          *)
(* WebSocket viewer) and the event listener task of the TUI, one action    *)
(* per step of a receiver s.                                               *)
(***************************************************************************)
\* The callers' and the loop's state is left alone by a receiver
ReceiverStep ==
    UNCHANGED <<progVars, histVars, ws_tx, published, commands, guards>>

\* state.roon_client.lock().await is granted (no request for a queue holds the
\* client mutex) and client.subscribe_ws() makes the receiver: it reads from
\* the position the channel is at
SubscribeWs(s) ==
    /\ receivers[s].state = "none"
    /\ \A c \in DOMAIN callers : callers[c].pc \in {"idle", "called"}
    /\ receivers' = [receivers EXCEPT ![s] =
          [@ EXCEPT !.state = "made", !.next = ws_tx.tail]]
    /\ ReceiverStep

\* A wrong initial state, which takes the core to be connected
InitialStateAssumed(s) ==
    /\ receivers[s].state = "made"
    /\ \A c \in DOMAIN callers : callers[c].pc \in {"idle", "called"}
    /\ receivers' = [receivers EXCEPT ![s] =
          [@ EXCEPT !.state = "open", !.last = ConnectionChangedMsg(TRUE),
                    !.told = ToldBy(receivers[s], ConnectionChangedMsg(TRUE))]]
    /\ ReceiverStep

\* client.is_connected() under the client mutex again, and the initial
\* ConnectionChanged sent to the socket
InitialState(s) ==
    /\ receivers[s].state = "made"
    /\ \A c \in DOMAIN callers : callers[c].pc \in {"idle", "called"}
    /\ receivers' = [receivers EXCEPT ![s] =
          [@ EXCEPT !.state = "open", !.last = ConnectionChangedMsg(connected),
                    !.told = ToldBy(receivers[s], ConnectionChangedMsg(connected))]]
    /\ ReceiverStep

\* rx.recv() returns: Ok(msg) with the message at the receiver's position,
\* which is forwarded, or Err(RecvError::Lagged(n)) when that position has
\* been overwritten; Err(_) => break (while let Ok(msg) in the TUI) ends the
\* receiver's task and drops the receiver
Recv(s) ==
    LET r == receivers[s]
        behind == ws_tx.tail - r.next
    IN  /\ r.state = "open"
        /\ behind > 0
        /\ receivers' = [receivers EXCEPT ![s] =
              IF behind > ws_tx.cap
              THEN Lagged(r, behind, ws_tx.cap)
              ELSE [r EXCEPT !.next = @ + 1, !.fed = TRUE,
                             !.last = ws_tx.buf[Len(ws_tx.buf) - behind + 1],
                             !.told = ToldBy(r, ws_tx.buf[Len(ws_tx.buf) - behind + 1])]]
        /\ ReceiverStep

\* The viewer closes the socket, or socket.send fails: break
Close(s) ==
    /\ receivers[s].state = "open"
    /\ receivers' = [receivers EXCEPT ![s] = [NoReceiver EXCEPT !.state = "closed"]]
    /\ ReceiverStep

(***************************************************************************)
(* Inputs.                                                                 *)
(***************************************************************************)
\* Sequences of at most n entries
RECURSIVE SeqsUpTo(_, _)
SeqsUpTo(entries, n) ==
    IF n = 0 THEN {<<>>}
    ELSE LET shorter == SeqsUpTo(entries, n - 1) IN
         shorter \cup {Append(b, e) : b \in {c \in shorter : Len(c) = n - 1},
                                      e \in entries}

IsAscending(b) == \A i \in 1..(Len(b) - 1) : b[i].zone_id < b[i + 1].zone_id

\* Zones without a now_playing descriptor, in every state
PlainZones == {Zone(id, st, FALSE, NoKey, NoSeek) : id \in ZoneIds, st \in States}

\* Batches naming each zone at most once
DebounceBatches == {b \in SeqsUpTo(PlainZones, NumZones) : b # <<>> /\ IsAscending(b)}

RemoveLists == {<<id>> : id \in ZoneIds}

SeekEntries == {[zone_id |-> id, seek |-> pos, qtr |-> 0] :
                   id \in ZoneIds, pos \in 0..MaxSeek}

Next ==
    \/ Registered(TRUE, TRUE, TRUE)
    \/ Lost
    \/ \E b \in DebounceBatches : ZonesChanged(b)
    \/ \E ids \in RemoveLists : ZonesRemoved(ids)
    \/ \E e \in SeekEntries : ZonesSeek(<<e>>)
    \/ TaskStep

\* Zones with a now_playing descriptor, Playing, with or without an image key
ImageZones == {Zone(id, "Playing", TRUE, k, 0) : id \in ZoneIds, k \in Keys \cup {NoKey}}

ImageBatches == {b \in SeqsUpTo(ImageZones, NumZones) : b # <<>> /\ IsAscending(b)}

\* The image path: zone updates that name image keys, and the images arriving
NextImages ==
    \/ \E has_i \in BOOLEAN : Registered(TRUE, has_i, TRUE)
    \/ Lost
    \/ \E b \in ImageBatches : ZonesChanged(b)
    \/ \E k \in Keys : ImageArrives(k)
    \/ TaskStep

SpecImages == InitWatching({"step"}) /\ [][NextImages]_vars

\* Zones with and without a now_playing descriptor
StoreZones ==
    {Zone(id, st, np, NoKey, pos) :
        id \in ZoneIds, st \in {"Playing", "Paused"}, np \in BOOLEAN, pos \in 0..MaxSeek}

\* Batches that may name a zone twice, in any order
StoreBatches == SeqsUpTo(StoreZones, NumZones) \ {<<>>}

RemoveBatches == SeqsUpTo(ZoneIds, NumZones) \ {<<>>}

SeekBatches == SeqsUpTo(SeekEntries, NumZones) \ {<<>>}

\* The zone store against the reference store
NextStore ==
    \/ Registered(TRUE, TRUE, TRUE)
    \/ Lost
    \/ \E b \in StoreBatches : ZonesChanged(b)
    \/ \E ids \in RemoveBatches : ZonesRemoved(ids)
    \/ \E seeks \in SeekBatches : ZonesSeek(seeks)
    \/ TaskStep

SpecStore == InitWatching({"ref"}) /\ [][NextStore]_vars

Items == 1..NumItems

QueueSnapshots == SeqsUpTo(Items, MaxQueueLen)

\* Deltas: inserts of one item, with and without items, at indices up to one
\* past the longest queue; removals with and without a count
QueueDeltas ==
    {Change("Insert", idx, has, <<it>>, NoCount) :
        idx \in 0..(MaxQueueLen + 1), has \in BOOLEAN, it \in Items}
    \cup {Change("Remove", idx, FALSE, <<>>, n) :
             idx \in 0..MaxQueueLen, n \in {NoCount, 2}}

NextQueue ==
    \/ Registered(TRUE, TRUE, TRUE)
    \/ Lost
    \/ LostBlocked
    \/ LostResume
    \/ \E u \in due, q \in QueueSnapshots : QueueSnapshot(u, q)
    \/ \E u \in ZoneIds, ch \in QueueDeltas : QueueChanges(u, <<ch>>)
    \/ \E c \in DOMAIN callers :
          \/ \E z \in ZoneIds : QueueRequest(c, z)
          \/ SubscribeEnter(c)
          \/ SubscribeCheck(c)
          \/ SubscribeSwitch(c)
          \/ SubscribeNotified(c)
          \/ SubscribeWoken(c)
          \/ SubscribeTimeout(c)

\* Zone updates of the last zone alone, Playing or Stopped
LastZoneBatches == {<<Zone(NumZones, st, FALSE, NoKey, NoSeek)>> : st \in {"Playing", "Stopped"}}

\* Every kind of event and one client, with few inputs of each kind
NextAll ==
    \/ Registered(TRUE, TRUE, TRUE)
    \/ Lost
    \/ LostBlocked
    \/ LostResume
    \/ \E b \in LastZoneBatches : ZonesChanged(b)
    \/ ZonesRemoved(<<NumZones>>)
    \/ ZonesSeek(<<[zone_id |-> NumZones, seek |-> 0, qtr |-> 0]>>)
    \/ TaskStep
    \/ \E u \in due : QueueSnapshot(u, <<>>)
    \/ \E u \in ZoneIds, ch \in QueueDeltas : QueueChanges(u, <<ch>>)
    \/ \E c \in DOMAIN callers :
          \/ QueueRequest(c, NumZones)
          \/ SubscribeEnter(c)
          \/ SubscribeCheck(c)
          \/ SubscribeSwitch(c)
          \/ SubscribeNotified(c)
          \/ SubscribeWoken(c)
          \/ SubscribeTimeout(c)

\* The same, keeping which tasks the last event spawned and what was sent
SpecAll == InitWith({"order", "sent"}, 1) /\ [][NextAll]_vars

\* The same, keeping the last step and what it sent
SpecLifecycle == InitWith({"step", "sent"}, 1) /\ [][NextAll]_vars

\* Every kind of event, one client asking for queues and the action calls,
\* for one zone the store may hold and one it never holds
NextActions ==
    \/ \E has_t \in BOOLEAN : Registered(has_t, TRUE, TRUE)
    \/ Lost
    \/ LostBlocked
    \/ LostResume
    \/ \E b \in LastZoneBatches : ZonesChanged(b)
    \/ ZonesRemoved(<<NumZones>>)
    \/ TaskStep
    \/ \E c \in DOMAIN callers :
          \/ QueueRequest(c, NumZones)
          \/ SubscribeEnter(c)
          \/ SubscribeCheck(c)
          \/ SubscribeSwitch(c)
          \/ SubscribeNotified(c)
          \/ SubscribeWoken(c)
          \/ SubscribeTimeout(c)
    \/ \E control \in ControlInputs : control_zone(NumZones, control)
    \/ play_from_queue_item(NumZones, 1)
    \/ seek_zone(NumZones, 0)
    \/ \E zone_id \in {1, NumZones}, outputs \in 0..1 :
          mute_output(zone_id, TRUE, outputs)

SpecActions == InitWith({"step", "sent"}, 1) /\ [][NextActions]_vars

\* The payloads the loop does not handle: an error, and any other kind
IgnoredKinds == {"Error", "Other"}

\* The events that fill the zone store, the image cache, the settle table,
\* the queue cache and the slot, and the payloads the loop ignores
NextIgnoring ==
    \/ Registered(TRUE, TRUE, TRUE)
    \/ Lost
    \/ \E b \in LastZoneBatches : ZonesChanged(b)
    \/ ZonesChanged(<<Zone(NumZones, "Playing", TRUE, NumKeys, 0)>>)
    \/ ImageArrives(NumKeys)
    \/ TaskStep
    \/ \E u \in due : QueueSnapshot(u, <<>>)
    \/ \E c \in DOMAIN callers :
          \/ QueueRequest(c, NumZones)
          \/ SubscribeEnter(c)
          \/ SubscribeCheck(c)
          \/ SubscribeSwitch(c)
          \/ SubscribeNotified(c)
          \/ SubscribeWoken(c)
          \/ SubscribeTimeout(c)
    \/ \E kind \in IgnoredKinds : Ignored(kind)

SpecIgnoring == InitWith({"step", "sent"}, 1) /\ [][NextIgnoring]_vars

\* One client asking for queues, one request after the other
SpecQueueSeq == InitWith({"calls"}, 1) /\ [][NextQueue]_vars

\* Two clients asking for queues at the same time
SpecQueue == InitWith({"calls"}, 2) /\ [][NextQueue]_vars

\* One client asking for queues, keeping the last step and what it sent
SpecQueueSteps == InitWith({"calls", "step", "sent"}, 1) /\ [][NextQueue]_vars

\* The same, keeping the last step and the items each request read
SpecQueueItems == InitWith({"calls", "step", "items"}, 1) /\ [][NextQueue]_vars

\* The debounce engine, keeping no history
Spec == InitWatching({}) /\ [][Next]_vars

\* The same, keeping the lone-zone stop and the count of broadcasts after it
SpecSolo == InitWatching({"solo"}) /\ [][Next]_vars

\* The same, keeping which tasks the last event spawned
SpecOrder == InitWatching({"order", "step", "sent"}) /\ [][Next]_vars

\* The same, keeping each zone's Playing/Stopped/Playing progress
SpecFlicker == InitWatching({"flicker"}) /\ [][Next]_vars

\* A seek entry of the last zone whose position tells the count of messages
\* the channel has stored
SeekCounting ==
    [zone_id |-> NumZones, seek |-> ws_tx.tail % (MaxSeek + 1), qtr |-> 0]

\* The broadcast channel with its receivers, fed by seek updates
NextFanout ==
    \/ Registered(TRUE, TRUE, TRUE)
    \/ ZonesSeek(<<SeekCounting>>)
    \/ \E s \in DOMAIN receivers :
          \/ SubscribeWs(s)
          \/ InitialState(s)
          \/ Recv(s)
          \/ Close(s)

SpecFanout == InitChannel({"fanout"}, 0, MaxReceivers) /\ [][NextFanout]_vars

(***************************************************************************)
(* Flicker suppression.                                                    *)
(***************************************************************************)
\* C1 (as the specification states it): whenever batches have reported a
\* zone Playing, then Stopped, then Playing again while the stop task
\* scheduled by the Stopped batch was still in its sleep, no ZonesChanged
\* listing that zone as Stopped has been published since the Stopped batch.
C1_NoStoppedInFlickerWindow ==
    \A z \in ZoneIds : flicker[z] = "PSP" => ~stopSeen[z]

(***************************************************************************)
(* Double stop.                                                            *)
(***************************************************************************)
\* The last step consumed a zones-changed batch reporting the zone of stop
\* task t Stopped while t was in the table and still in its sleep
DoubleStopped(t) ==
    /\ lastStep.kind = "ZonesChanged"
    /\ t \in lastStep.sleeping
    /\ Reported(lastStep.batch, t.zone) = "Stopped"

C3_RemovalCancelsPendingStop ==
    \A t \in lastStep.sleeping :
        (/\ lastStep.kind = "ZonesRemoved"
         /\ \E i \in 1..Len(lastStep.ids) : lastStep.ids[i] = t.zone)
        => /\ t.zone \notin pending_stops
           /\ CopiesIn(Old(t), tasks) = 0

AllLoadingConsumed ==
    /\ lastStep.kind = "ZonesChanged"
    /\ zones # EmptyMap
    /\ \A id \in DOMAIN zones : zones[id].state = "Loading"

\* C6: the step that consumes a zones-changed batch after which every zone of
\* the store is Loading publishes nothing and spawns no task.
C6_AllLoadingSilent ==
    AllLoadingConsumed =>
        /\ sent = <<>>
        /\ \A t \in BagToSet(tasks) : ~t.fresh

C6_Witness == AllLoadingConsumed /\ tasks # EmptyBag

(***************************************************************************)
(* Image fetches.                                                          *)
(***************************************************************************)
\* C7 (as the specification states it): no image key has more than one
\* get_image call without an answer, however many zone updates name it.
C7_OneFetchPerKey == \A k \in Keys : image_requests[k] <= 1

(***************************************************************************)
(* The zone store against the reference store.                             *)
(***************************************************************************)
\* The map a list without repeated ids stands for
AsMap(list) ==
    [id \in {list[i].zone_id : i \in 1..Len(list)} |->
        (CHOOSE z \in {list[i] : i \in 1..Len(list)} : z.zone_id = id)]

\* C8: after any sequence of zones-changed, zones-removed and zones-seek
\* batches the zone store is the map of the reference store, which was given
\* the same batches in the same order; every entry is filed under its own id,
\* once; and a zones-changed batch applied twice gives the store it gives
\* applied once.
C8_StoreIsReference ==
    /\ zones = AsMap(ref)
    /\ Cardinality(DOMAIN zones) = Len(ref)
    /\ \A id \in DOMAIN zones : zones[id].zone_id = id
    /\ \A b \in StoreBatches :
          UpsertAll(UpsertAll(zones, b), b) = UpsertAll(zones, b)

\* The store holds every zone after batches that replaced, removed and patched
C8_Witness ==
    /\ Len(ref) = NumZones
    /\ \E id \in DOMAIN zones : zones[id].np /\ zones[id].seek = MaxSeek
    /\ ref[1].zone_id # 1


(***************************************************************************)
(* Subscribe idempotence.                                                  *)
(***************************************************************************)
\* Request r has returned, the request before it by the same client was for
\* the same zone, and both found the transport service
TwoCalls(r) ==
    /\ r.pc = "idle"
    /\ r.outcome \notin {"none", "unavailable"}
    /\ r.prev.outcome \notin {"none", "unavailable"}
    /\ r.prev.zone = r.zone

\* C9 (as the specification states it): two consecutive calls with the same
\* zone id, the transport service being there, issue between them exactly one
\* subscribe_queue and no unsubscribe_queue, and the second does not wait.
C9_OneSubscribeForTwoCalls ==
    \A c \in DOMAIN callers :
        TwoCalls(callers[c]) =>
            /\ callers[c].prev.issued \o callers[c].issued
                  = <<SubscribeQueue(callers[c].zone)>>
            /\ callers[c].outcome = "already"

\* C9, amended: of two consecutive calls with the same zone id, the transport
\* service being there, the second issues no upstream call and returns
\* without waiting; the first issues one subscribe_queue when the slot was
\* empty, one unsubscribe_queue then one subscribe_queue when the slot named
\* another zone, and nothing when the slot named the zone already.
C9_SecondCallIssuesNothing ==
    \A c \in DOMAIN callers :
        LET r == callers[c] IN
        TwoCalls(r) =>
            /\ r.issued = <<>>
            /\ r.outcome = "already"
            /\ r.prev.issued =
                  IF r.prev.slot_at_call = r.zone THEN <<>>
                  ELSE IF r.prev.slot_at_call = NoZone THEN <<SubscribeQueue(r.zone)>>
                  ELSE <<UnsubscribeQueue, SubscribeQueue(r.zone)>>
            /\ r.prev.outcome = "already" <=> r.prev.slot_at_call = r.zone

C9_Witness ==
    \E c \in DOMAIN callers :
        /\ TwoCalls(callers[c])
        /\ callers[c].prev.issued = <<SubscribeQueue(callers[c].zone)>>
        /\ callers[c].prev.outcome = "notified"

(***************************************************************************)
(* Subscription switch.                                                    *)
(***************************************************************************)
\* Request r was a call of subscribe_to_queue made while the slot named
\* another zone, and it is past the switch or has returned
SwitchCalled(r) ==
    /\ r.slot_at_call \notin {NoZone, r.zone}
    /\ r.pc \in {"dropped", "wait"} \/ (r.pc = "idle" /\ r.outcome # "none")

LastOf(q, n) == SubSeq(q, IF Len(q) > n THEN Len(q) - n + 1 ELSE 1, Len(q))

\* Receiver s got the lag signal
GotLagged(s) == receivers[s].lagged > 0

\* C11: whatever the receivers' states (none, one behind by a full ring, one
\* behind by more), every message published while a receiver exists is
\* stored and the loop goes on: the channel has stored as many messages as
\* were published and holds the last 100 of them at most; a receiver that
\* was more than the ring behind got the lag signal with the count of the
\* messages it lost, the oldest ones; every other receiver is handed the
\* messages in the order of publication, without a gap.
C11_FanOutNeverBlocks ==
    /\ loop_pc = "idle"
    /\ ws_tx.tail = Len(published)
    /\ ws_tx.buf = LastOf(published, ws_tx.cap)
    /\ \A s \in DOMAIN receivers :
          LET r == receivers[s] IN
          /\ (r.state = "open" /\ r.fed) => r.last = published[r.next]
          /\ r.state \in {"made", "open"} => r.next <= ws_tx.tail
          /\ GotLagged(s) => r.lagged <= ws_tx.tail - ws_tx.cap

\* One receiver got the lag signal while the other has been handed every
\* message up to the newest
C11_Witness ==
    \E s, o \in DOMAIN receivers :
        /\ GotLagged(s)
        /\ receivers[o].state = "open"
        /\ receivers[o].fed
        /\ receivers[o].next = ws_tx.tail
        /\ ws_tx.tail > ws_tx.cap

(***************************************************************************)
(* Resynchronisation after a miss.                                         *)
(***************************************************************************)
\* C12 (as the specification states it): a receiver that missed messages
\* because it lagged is still receiving: it is handed the messages
\* published afterwards.
C12_LaggedKeepsReceiving ==
    \A s \in DOMAIN receivers : GotLagged(s) => receivers[s].state = "open"


(***************************************************************************)
(* Queue events and the QueueChanged message.                              *)
(***************************************************************************)
\* The one message QueueChanged{id} of the loop
Announced(id) == <<Pub(QueueChangedMsg(id), TRUE, TRUE, "no")>>

\* C13 (as the specification states it): a queue snapshot stored under the
\* subscribed zone z, and a queue delta applied to the cached queue of z,
\* each publish exactly one QueueChanged{z}; a queue event that is not
\* applied publishes nothing.
C13_QueueEventsAnnounced ==
    /\ lastStep.kind = "Queue" =>
          sent = IF active_queue_zone # NoZone THEN Announced(active_queue_zone)
                 ELSE <<>>
    /\ lastStep.kind = "QueueChanges" =>
          sent = IF /\ active_queue_zone # NoZone
                    /\ active_queue_zone \in DOMAIN queues
                    /\ loop_pc # "dead"
                 THEN Announced(active_queue_zone)
                 ELSE <<>>

\* C14 (as the specification states it): a queue delta of zone id is applied,
\* in the order of its operations, to the cached item list of id only if id
\* is the subscribed zone; a delta of any other zone leaves every cached
\* queue unchanged.
C14_DeltasOnlyTouchSubscribed ==
    [][lastStep'.kind = "QueueChanges" =>
          queues' = IF /\ lastStep'.ids = <<active_queue_zone>>
                       /\ active_queue_zone \in DOMAIN queues
                    THEN [queues EXCEPT ![active_queue_zone] =
                             ApplyChanges(@, lastStep'.batch).queue]
                    ELSE queues]_vars


(***************************************************************************)
(* The rendezvous of subscribe_to_queue and its timeout.                   *)
(***************************************************************************)
\* The request of client c switched the slot and its wait ended by the
\* timeout
TimedOut(c) == callers[c].outcome = "timeout"

\* C15 (as the specification states it): when subscribe_to_queue(z) switched
\* the slot to z and no queue snapshot arrived before the timeout, the call
\* returns, get_queue(z) then returns no items, and the snapshot of zone z
\* that arrives later is stored so that get_queue(z) returns it.
C15_TimeoutIsSoft ==
    /\ [](\A c \in DOMAIN callers :
             (TimedOut(c) /\ ~callers[c].arrived) =>
                /\ callers[c].pc = "idle"
                /\ callers[c].items = <<>>)
    /\ [][\A c \in DOMAIN callers :
             (/\ TimedOut(c) /\ ~callers[c].arrived
              /\ lastStep'.kind = "Queue"
              /\ lastStep'.ids = <<callers[c].zone>>) =>
                get_queue(queues', callers[c].zone)
                   = [some |-> TRUE, items |-> lastStep'.batch]]_vars


(***************************************************************************)
(* The connection lifecycle: CoreEvent::Registered and CoreEvent::Lost.    *)
(***************************************************************************)
\* The one message ConnectionChanged{c} of the loop
Told(c) == <<Pub(ConnectionChangedMsg(c), TRUE, TRUE, "no")>>

\* The messages ConnectionChanged among msgs
ConnectionChanges(msgs) ==
    {i \in 1..Len(msgs) : msgs[i].msg.type = "ConnectionChanged"}

\* C16: is_connected() is true exactly when the registered/lost event
\* consumed last was a registered one (no other step changes it),
\* get_core_name() is present exactly when connected, and each registered
\* or lost event publishes exactly one ConnectionChanged with the new value
\* (the Lost arm that waits for the write guard of transport_service
\* publishes it when the guard is granted); no other step publishes one.
C16_ConnectionFollowsLifecycle ==
    /\ [](core_name = connected)
    /\ [][/\ lastStep'.kind = "Registered" => connected' /\ sent' = Told(TRUE)
          /\ lastStep'.kind = "Lost" =>
                /\ ~connected'
                /\ sent' = IF loop_pc' = "lost" THEN <<>> ELSE Told(FALSE)
          /\ lastStep'.kind = "LostResume" =>
                loop_pc = "lost" /\ sent' = Told(FALSE)
          /\ lastStep'.kind \notin {"Registered", "Lost"} =>
                connected' = connected
          /\ lastStep'.kind \notin {"Registered", "Lost", "LostResume"} =>
                ConnectionChanges(sent') = {}]_vars

\* A registration after a lost connection, the slot still naming a zone
C16_Witness ==
    /\ lastStep.kind = "Registered"
    /\ connected
    /\ core_name
    /\ sent = Told(TRUE)
    /\ active_queue_zone # NoZone
    /\ upstream = <<>>


(***************************************************************************)
(* The lost connection and the action calls.                               *)
(***************************************************************************)
\* The outcome of the action call the last step was
Outcome == lastStep.batch[1]

\* The kinds of step that consume an upstream event
EventKinds ==
    {"Registered", "Lost", "ZonesChanged", "ZonesRemoved", "ZonesSeek", "Queue",
     "QueueChanges"}

\* C17: when the Lost arm has run, the zone store is empty and the
\* transport, image and browse handles are absent (the transport and browse
\* handles once a queue request has let go of the read guard the arm waits
\* for); they stay absent, and every action call fails without a request,
\* until the next registered event; the store stays empty until a
\* zones-changed batch is consumed.
C17_LostClearsView ==
    /\ []((~connected /\ loop_pc # "lost") =>
             ~transport_service /\ ~image_service /\ ~browse_service)
    /\ []((lastStep.kind \in ActionCalls /\ ~connected) =>
             Outcome.result # "Ok" /\ Outcome.requests = <<>>)
    /\ [][/\ lastStep'.kind \in {"Lost", "LostResume"} =>
                /\ zones' = EmptyMap
                /\ ~image_service'
                /\ loop_pc' = "idle" => ~transport_service' /\ ~browse_service'
          /\ (zones = EmptyMap /\ zones' # EmptyMap) =>
                lastStep'.kind = "ZonesChanged"]_vars

\* An action call fails after the connection was lost: the slot was set
\* while the transport service was there
C17_Witness ==
    /\ lastStep.kind = "control_zone"
    /\ Outcome.arg \in Controls
    /\ Outcome.result = "Transport service not available"
    /\ ~connected
    /\ zones = EmptyMap
    /\ active_queue_zone # NoZone

\* C18: no action call, whatever it returns, changes the zone store, the
\* connection flag, the pending settle table or the queue cache, or
\* publishes a message; the store, the flag and the cache change only in a
\* step that consumes an upstream event.
C18_ActionCallsFireAndForget ==
    [][/\ lastStep'.kind \in ActionCalls =>
            /\ UNCHANGED <<zones, connected, pending_stops, queues>>
            /\ sent' = <<>>
            /\ ws_tx' = ws_tx
       /\ <<zones, connected, queues>>' # <<zones, connected, queues>> =>
            lastStep'.kind \in EventKinds]_vars

\* A call has made its request while the store holds the zone and a stop of
\* it is pending
C18_Witness ==
    /\ lastStep.kind = "mute_output"
    /\ Outcome.result = "Ok"
    /\ lastStep.ids[1] \in DOMAIN zones
    /\ lastStep.ids[1] \in pending_stops
    /\ commands > 0

\* C19: without the transport handle each action call returns a failure;
\* control_zone fails for a command string it does not know, mute_output
\* for a zone the store does not hold or a zone without outputs; a call
\* that fails makes no request, and the core receives a request only in
\* the step of a call that returns success (none is made later).
C19_FailuresReturned ==
    /\ [](lastStep.kind \in ActionCalls =>
             /\ ~transport_service => Outcome.result # "Ok"
             /\ (lastStep.kind = "control_zone" /\ Outcome.arg \notin Controls) =>
                   Outcome.result # "Ok"
             /\ (/\ lastStep.kind = "mute_output"
                 /\ \/ lastStep.ids[1] \notin DOMAIN zones
                    \/ Outcome.arg.outputs = 0) =>
                   Outcome.result # "Ok"
             /\ Outcome.result # "Ok" => Outcome.requests = <<>>)
    /\ [][commands' # commands =>
             /\ lastStep'.kind \in ActionCalls
             /\ lastStep'.batch[1].result = "Ok"
             /\ commands' = commands + Len(lastStep'.batch[1].requests)]_vars

\* control_zone refuses a command it does not know while the transport
\* service is there
C19_Witness ==
    /\ lastStep.kind = "control_zone"
    /\ transport_service
    /\ Outcome.arg \notin Controls
    /\ Outcome.result = "Invalid control"
    /\ Outcome.requests = <<>>


(***************************************************************************)
(* Payloads the loop ignores.                                              *)
(***************************************************************************)
\* C20: consuming an error payload, or a payload of a kind the loop does not
\* handle, leaves the zone store, the image cache, the queue cache, the
\* queue slot, the pending settle table and the connection flag unchanged
\* and publishes nothing, and the loop is ready for the next event.
C20_MalformedIgnored ==
    [][lastStep'.kind \in IgnoredKinds =>
          /\ UNCHANGED <<zones, images, queues, active_queue_zone, pending_stops,
                         connected>>
          /\ sent' = <<>>
          /\ ws_tx' = ws_tx
          /\ loop_pc' = "idle"]_vars

\* An error payload consumed with a zone stored, its stop pending, an image
\* and a queue cached and the slot set
C20_Witness ==
    /\ lastStep.kind = "Error"
    /\ zones # EmptyMap
    /\ pending_stops # {}
    /\ images # {}
    /\ queues # EmptyMap
    /\ active_queue_zone # NoZone
    /\ connected
    /\ loop_pc = "idle"


(***************************************************************************)
(* The delayed tasks of a zone.                                            *)
(***************************************************************************)
\* The tasks still in their sleep that were scheduled for zone id: its
\* delayed stop tasks and, for a dCS zone, the dCS delay tasks
Delayed(id) ==
    {t \in BagToSet(tasks) :
        /\ t.pc = "sleep"
        /\ \/ t.kind = "stop" /\ t.zone = id
           \/ t.kind = "dcs" /\ IsDcs(id)}

Outstanding(id) == BagCardinality([t \in Delayed(id) |-> CopiesIn(t, tasks)])

\* C21 (as the specification states it): at most one delayed task (delayed
\* stop or dCS delay) is outstanding per zone id at any time.
C21_OnePendingPerZone == \A id \in ZoneIds : Outstanding(id) <= 1


\* C22 (as the specification states it): a delayed stop task that was not
\* cancelled in its sleep publishes one ZonesChanged when it has woken and
\* then removes its own entry from the table; the entry it removes is never
\* that of a task scheduled later for the same zone.
C22_SettleFiresOnce ==
    [][/\ (lastStep'.kind = "Send" /\ lastStep'.task.kind = "stop") =>
            /\ Len(sent') = 1
            /\ sent'[1].msg.type = "ZonesChanged"
       /\ lastStep'.kind = "SelfRemove" =>
            /\ lastStep'.task.pc = "sent"
            /\ lastStep'.task.zone \notin pending_stops'
            /\ lastStep'.task.zone \in pending_stops => lastStep'.task.held]_vars


\* C23 (as the specification states it): a delayed stop task whose entry a
\* batch leaving its zone Loading, Playing or Paused has removed and
\* aborted publishes no ZonesChanged afterwards, wherever the task was when
\* it was aborted.
C23_CancelledStopNeverFires ==
    (lastStep.kind = "Send" /\ lastStep.task.kind = "stop") =>
        /\ lastStep.task.aborted = "no"
        /\ \A i \in 1..Len(sent) : sent[i].cancelled = "no"


\* C24 (as the specification states it): the double-stop branch is taken
\* for a zone only when a batch reports it Stopped again; a zones-changed
\* batch that names only other zones leaves the zone's entry in the table
\* and its delayed stop task asleep.
C24_DoubleStopNeedsTwoReports ==
    \A t \in lastStep.sleeping :
        (/\ lastStep.kind = "ZonesChanged"
         /\ Reported(lastStep.batch, t.zone) = "Absent")
        => /\ t.zone \in pending_stops
           /\ CopiesIn(Old(t), tasks) >= 1


(***************************************************************************)
(* The loop and the rendezvous wait.                                       *)
(***************************************************************************)
\* C25 (as the specification states it): while a caller of
\* subscribe_to_queue waits for the queue snapshot, the loop is never held
\* inside an arm: every event it takes up is consumed to completion without
\* waiting for the caller.
C25_LoopNeverWaitsForRendezvous ==
    \A c \in DOMAIN callers : callers[c].pc = "wait" => loop_pc # "lost"


(***************************************************************************)
(* The broadcast of a removal.                                             *)
(***************************************************************************)
SpecRemoval == InitWatching({"gone", "order", "step", "sent"}) /\ [][Next]_vars

\* The tasks of ts2 that ts1 has not
NewTasks(ts1, ts2) == ts2 (-) ts1

SettleKinds == {"stop", "dcs"}

\* C27: a settle task (the delayed stop task, the dCS delay task) reads the
\* store after its sleep, and what it publishes is the store as it read it:
\* every upsert, removal and seek patch consumed before the read is in the
\* payload, whatever the store held when the task was spawned.
C27_FireTimeSnapshot ==
    [][/\ (lastStep'.kind = "Build" /\ lastStep'.task.kind \in SettleKinds) =>
            /\ lastStep'.task.pc = "run"
            /\ lastStep'.task.snap = EmptyMap
            /\ zones' = zones
            /\ CopiesIn([lastStep'.task EXCEPT !.pc = "built", !.snap = zones], tasks')
                   = CopiesIn([lastStep'.task EXCEPT !.pc = "built", !.snap = zones], tasks) + 1
       /\ (lastStep'.kind = "Send" /\ lastStep'.task.kind \in SettleKinds) =>
            /\ lastStep'.task.pc = "built"
            /\ Len(sent') = 1
            /\ sent'[1].msg = ZonesChangedMsg(lastStep'.task.snap)]_vars

\* A stop task published a payload without its own zone, removed from the
\* store while the task slept
C27_Witness ==
    /\ lastStep.kind = "Send"
    /\ lastStep.task.kind = "stop"
    /\ lastStep.task.aborted = "no"
    /\ ~lastStep.task.fresh
    /\ lastStep.task.zone \notin DOMAIN sent[1].msg.raw_zones


(***************************************************************************)
(* The broadcast decision of the Parsed::Zones arm.                        *)
(***************************************************************************)
\* The tasks of ts spawned by the event just consumed, of a kind and a pc
FreshCount(ts, kind, pc) ==
    BagCardinality([t \in {u \in BagToSet(ts) : u.fresh /\ u.kind = kind /\ u.pc = pc}
                       |-> CopiesIn(t, ts)])

\* The store holds a zone that is not stopped and a zone that is not Loading
Gate(snapshot) == NonStopZones(snapshot) # {} /\ HasNonLoading(snapshot)

\* The zones a batch stops a second time: stopped in the store, with an entry
\* in the table
Restopped(snapshot, pend) == StoppedZones(snapshot) \cap pend

\* What a step does about the broadcast decision
C28_Step ==
    /\ lastStep'.kind = "ZonesChanged" =>
         /\ sent' = <<>>
         /\ FreshCount(tasks', "dcs", "sleep")
                = IF Gate(zones') /\ DcsPlayingZones(zones') # {} THEN 1 ELSE 0
         /\ FreshCount(tasks', "imm", "run")
                = Cardinality(Restopped(zones', pending_stops))
                  + IF Gate(zones') /\ DcsPlayingZones(zones') = {} THEN 1 ELSE 0
         /\ FreshCount(tasks', "dcs", "run") = 0
         /\ FreshCount(tasks', "imm", "sleep") = 0
    /\ (lastStep'.kind = "Send" /\ lastStep'.task.kind = "dcs") =>
         /\ lastStep'.task.pc = "built"
         /\ Len(sent') = 1
         /\ sent'[1].msg.type = "ZonesChanged"
         /\ CopiesIn(lastStep'.task, tasks') = CopiesIn(lastStep'.task, tasks) - 1
    /\ (lastStep'.kind = "TimerFire" /\ lastStep'.task.kind = "dcs") =>
         sent' = <<>>

\* C28: a zones-changed batch publishes nothing in the step that consumes it.
\* When the store then holds a non-stop zone and a zone that is not Loading,
\* the update is answered by one task: with a dCS zone Playing, the dCS delay
\* task, asleep for DCS_UPDATE_DELAY_MS, which nothing cancels and which
\* publishes once, after its sleep; with none Playing, one spawned broadcast
\* that sleeps nowhere.  The other broadcasts spawned by the step answer
\* second stops.
C28_FormatSettleGating ==
    /\ [](\A t \in BagToSet(tasks) :
            t.kind = "dcs" => t.aborted = "no" /\ ~t.held /\ t.zone = NoZone)
    /\ [][C28_Step]_vars

\* A batch was consumed that starts the dCS zone playing and stops another
\* zone a second time: the delay task sleeps, the stop's broadcast does not
C28_Witness ==
    /\ lastStep.kind = "ZonesChanged"
    /\ DcsPlayingZones(zones) # {}
    /\ FreshCount(tasks, "dcs", "sleep") = 1
    /\ FreshCount(tasks, "imm", "run") = 1


(***************************************************************************)
(* Parsed::ZonesSeek.                                                      *)
(***************************************************************************)
\* Zones as an update reports them: playing, with and without a now_playing
\* descriptor, and the last zone stopped
SeekZones ==
    {Zone(id, "Playing", np, NoKey, 0) : id \in ZoneIds, np \in BOOLEAN}
    \cup {Zone(NumZones, "Stopped", FALSE, NoKey, NoSeek)}

\* Seek entries whose queue_time_remaining differs from their position (what
\* is left of a queue of MaxSeek seconds), and batches of them
TimedSeekEntries ==
    {[zone_id |-> id, seek |-> pos, qtr |-> MaxSeek - pos] :
        id \in ZoneIds, pos \in 0..MaxSeek}

TimedSeekBatches == SeqsUpTo(TimedSeekEntries, NumZones) \ {<<>>}

NextSeek ==
    \/ Registered(TRUE, TRUE, TRUE)
    \/ Lost
    \/ \E z \in SeekZones : ZonesChanged(<<z>>)
    \/ ZonesRemoved(<<NumZones>>)
    \/ \E seeks \in TimedSeekBatches : ZonesSeek(seeks)
    \/ TaskStep

SpecSeek == InitWatching({"step", "sent"}) /\ [][NextSeek]_vars

\* The positions of the entries of a batch that name zone id, in batch order
Positions(seeks, id) ==
    SelectSeq(seeks, LAMBDA e : e.zone_id = id)

\* C29: consuming a zones-seek batch leaves the set of zone ids, every field
\* of every zone but the seek position, the table of pending stops, the
\* tasks, the queue cache, the queue slot and the connection flag as they
\* were; a zone keeps its position unless it has a now_playing descriptor
\* and the batch names it, and then it has the position of the last entry
\* that names it.
C29_SeekPatchesOnlyPosition ==
    [][lastStep'.kind = "ZonesSeek" =>
          /\ DOMAIN zones' = DOMAIN zones
          /\ \A id \in DOMAIN zones :
                /\ [zones'[id] EXCEPT !.seek = zones[id].seek] = zones[id]
                /\ (~zones[id].np \/ Positions(lastStep'.seeks, id) = <<>>)
                      => zones'[id] = zones[id]
                /\ (zones[id].np /\ Positions(lastStep'.seeks, id) # <<>>)
                      => zones'[id].seek
                           = Positions(lastStep'.seeks, id)[Len(Positions(lastStep'.seeks, id))].seek
          /\ pending_stops' = pending_stops
          /\ tasks' = tasks
          /\ queues' = queues
          /\ active_queue_zone' = active_queue_zone
          /\ connected' = connected]_vars

\* A batch of two entries was consumed: one names a zone that is not in the
\* store or has no now_playing descriptor, the other moved a position
C29_Witness ==
    /\ lastStep.kind = "ZonesSeek"
    /\ Len(lastStep.seeks) = 2
    /\ \E i \in 1..2 : lastStep.seeks[i].zone_id \notin DOMAIN zones
    /\ \E i \in 1..2 :
          /\ lastStep.seeks[i].zone_id \in DOMAIN zones
          /\ zones[lastStep.seeks[i].zone_id].np
          /\ zones[lastStep.seeks[i].zone_id].seek = 1
    /\ pending_stops # {}

\* A batch was consumed that names a zone without a now_playing descriptor
C29_WitnessNoDescriptor ==
    /\ lastStep.kind = "ZonesSeek"
    /\ \E i \in 1..Len(lastStep.seeks) :
          /\ lastStep.seeks[i].zone_id \in DOMAIN zones
          /\ ~zones[lastStep.seeks[i].zone_id].np


\* C30: consuming a zones-seek batch of n entries publishes n messages in the
\* step itself, the i-th a SeekUpdated with the zone id, the position and the
\* queue_time_remaining of the i-th entry, whether or not the store holds the
\* zone; it publishes no ZonesChanged and spawns no task.
C30_OneSeekUpdatedPerEntry ==
    [][lastStep'.kind = "ZonesSeek" =>
          /\ Len(sent') = Len(lastStep'.seeks)
          /\ \A i \in 1..Len(sent') :
                /\ sent'[i].sync
                /\ sent'[i].msg = SeekUpdatedMsg(lastStep'.seeks[i].zone_id,
                                                 lastStep'.seeks[i].seek,
                                                 lastStep'.seeks[i].qtr)
          /\ tasks' = tasks
          /\ pending_stops' = pending_stops]_vars

\* A batch of two entries was consumed that names the zones in descending
\* order, the first of them unknown to the store, with different positions
\* and times
C30_Witness ==
    /\ lastStep.kind = "ZonesSeek"
    /\ Len(lastStep.seeks) = 2
    /\ Len(sent) = 2
    /\ lastStep.seeks[1].zone_id > lastStep.seeks[2].zone_id
    /\ lastStep.seeks[1].zone_id \notin DOMAIN zones
    /\ lastStep.seeks[1].seek # lastStep.seeks[2].seek
    /\ lastStep.seeks[1].qtr # lastStep.seeks[1].seek
    /\ sent[1].msg.zone_id = lastStep.seeks[1].zone_id


(***************************************************************************)
(* The view-model: build_ws_zone_data_from_zones, one WsZoneData per zone. *)
(***************************************************************************)
\* output.source_controls: None, or Some list of [status, display_name]; a
\* source control is named by a number
NoControls == [some |-> FALSE, list |-> <<>>]
SomeControls(list) == [some |-> TRUE, list |-> list]
SourceControl(status, name) == [status |-> status, display_name |-> name]
Output(controls) == [source_controls |-> controls]

\* source_controls.iter().find(|sc| sc.status == Status::Selected)
SelectedIn(controls) ==
    {i \in 1..Len(controls) :
        /\ controls[i].status = "Selected"
        /\ \A j \in 1..(i - 1) : controls[j].status # "Selected"}

\* zone.display_name: a zone is named after its id
DisplayName(z) == z.zone_id

\* format!("{} ({})", zone.display_name, selected_source.display_name), or
\* the plain display name: of zone.outputs.first() only
ZoneName(z) ==
    IF z.outputs = <<>> THEN <<DisplayName(z)>>
    ELSE LET controls == z.outputs[1].source_controls IN
         IF ~controls.some THEN <<DisplayName(z)>>
         ELSE IF SelectedIn(controls.list) = {} THEN <<DisplayName(z)>>
         ELSE <<DisplayName(z),
                controls.list[CHOOSE i \in SelectedIn(controls.list) : TRUE].display_name>>

\* WsZoneData {..} of one zone; fmt is what dcs::get_playback_info gave
WsZoneData(z, fmt) ==
    [zone_id |-> z.zone_id, zone_name |-> ZoneName(z), state |-> z.state,
     track |-> z.np, position_seconds |-> z.seek, image_key |-> z.key,
     dcs_format |-> IF z.dcs /\ z.state = "Playing" THEN fmt ELSE "None"]

\* zones.read().await.values().cloned().collect() and join_all: the zones in
\* the order the map yields them
WsZoneDataList(m, order, fmt) == [i \in 1..Len(order) |-> WsZoneData(m[order[i]], fmt)]

\* The orders a HashMap of these keys may yield them in
Orders(keys) ==
    {o \in SeqsUpTo(keys, NumZones) :
        Len(o) = Cardinality(keys) /\ {o[i] : i \in 1..Len(o)} = keys}

Formats == {"None", "44 kHz 16 bit"}

\* RoonClient::build_ws_zone_data
build_ws_zone_data(order, fmt) ==
    Called("build_ws_zone_data", NoZone, order,
           [result |-> WsZoneDataList(zones, order, fmt), requests |-> <<>>])

\* Source controls and outputs of a zone, as an update reports them
ControlLists ==
    {NoControls, SomeControls(<<>>), SomeControls(<<SourceControl("Selected", 1)>>),
     SomeControls(<<SourceControl("Standby", 1), SourceControl("Selected", 2)>>)}

OutputLists == SeqsUpTo({Output(c) : c \in ControlLists}, 2)

\* The first zone playing or paused without outputs, the last zone paused
\* with its outputs
ViewZones ==
    {Zone(1, st, np, NoKey, 0) : st \in {"Playing", "Paused"}, np \in BOOLEAN}
    \cup {[Zone(NumZones, "Paused", FALSE, NoKey, NoSeek) EXCEPT !.outputs = outs] :
              outs \in OutputLists}

NextView ==
    \/ Registered(TRUE, TRUE, TRUE)
    \/ \E z \in ViewZones : ZonesChanged(<<z>>)
    \/ ZonesRemoved(<<NumZones>>)
    \/ \E order \in Orders(DOMAIN zones), fmt \in Formats : build_ws_zone_data(order, fmt)
    \/ TaskStep

SpecView == InitWatching({"step"}) /\ [][NextView]_vars

\* An output of zone z has a selected source control
HasSelected(z) ==
    \E i \in 1..Len(z.outputs) :
        /\ z.outputs[i].source_controls.some
        /\ SelectedIn(z.outputs[i].source_controls.list) # {}

\* C31 (as the specification states it): build_ws_zone_data returns one
\* view-model per zone of the store, with the zone's id and state; the name
\* of a view-model has the selected source control's name after the zone's
\* display name exactly when an output of the zone has a selected source
\* control; the call leaves the store as it is.
C31_ViewModelProjection ==
    lastStep.kind = "build_ws_zone_data" =>
        LET view == lastStep.batch[1].result IN
        /\ Len(view) = Cardinality(DOMAIN zones)
        /\ \A id \in DOMAIN zones :
              \E i \in 1..Len(view) :
                 /\ view[i].zone_id = id
                 /\ view[i].state = zones[id].state
                 /\ view[i].zone_name[1] = DisplayName(zones[id])
                 /\ Len(view[i].zone_name) = IF HasSelected(zones[id]) THEN 2 ELSE 1


(***************************************************************************)
(* What a viewer knows of the connection.                                  *)
(***************************************************************************)
\* The most messages the channel stores while viewers are watched
MaxStored == 5

\* The connection coming and going, seek updates, and the viewers
NextViewers ==
    \/ ws_tx.tail < MaxStored /\ Registered(TRUE, TRUE, TRUE)
    \/ ws_tx.tail < MaxStored /\ Lost
    \/ ws_tx.tail < MaxStored /\ ZonesSeek(<<SeekCounting>>)
    \/ \E s \in DOMAIN receivers :
          \/ SubscribeWs(s)
          \/ InitialState(s)
          \/ Recv(s)
          \/ Close(s)

SpecViewers == InitChannel({"told"}, 0, MaxReceivers) /\ [][NextViewers]_vars

\* is_connected() as a viewer is told it
Status == IF connected THEN "up" ELSE "down"

\* Receiver s has read every message the channel holds for it
CaughtUp(s) == receivers[s].state = "open" /\ receivers[s].next = ws_tx.tail

\* C32: a viewer is made a receiver of the channel before the connection
\* status is read for it, and the first message it is sent is ConnectionChanged
\* with the status read; a viewer that has read every message of the channel
\* was told last the status is_connected() returns.
C32_ViewersLearnStatus ==
    /\ [](\A s \in DOMAIN receivers :
            /\ receivers[s].state = "made" =>
                  receivers[s].last = NoMsg /\ receivers[s].told = "none"
            /\ (receivers[s].state = "open" /\ ~receivers[s].fed) =>
                  receivers[s].last.type = "ConnectionChanged"
            /\ (CaughtUp(s) /\ loop_pc = "idle") => receivers[s].told = Status)
    /\ [][\A s \in DOMAIN receivers :
            (receivers[s].state # "open" /\ receivers'[s].state = "open") =>
                /\ receivers[s].state = "made"
                /\ receivers[s].next <= ws_tx.tail
                /\ receivers'[s].next = receivers[s].next
                /\ receivers'[s].last = ConnectionChangedMsg(connected)
                /\ ~receivers'[s].fed]_vars

\* A viewer registered while the core was connected, before any message was
\* stored: it has read the one message the channel stored since, the down of
\* the connection lost, and the core is not connected
C32_Witness ==
    \E s \in DOMAIN receivers :
        /\ CaughtUp(s)
        /\ receivers[s].fed
        /\ receivers[s].last = ConnectionChangedMsg(FALSE)
        /\ receivers[s].next = 1
        /\ ws_tx.tail = 1
        /\ ~connected
        /\ Len(ws_tx.buf) = 1


(***************************************************************************)
(* The table of pending stops against the store.                           *)
(***************************************************************************)
\* C33: when a zones-changed batch has been consumed, every zone with an
\* entry in the table of pending stops is Stopped in the store or not in the
\* store; no zone that is Loading, Playing or Paused has an entry, nor a task
\* whose handle the table holds.
C33_PendingStopsAreStopped ==
    lastStep.kind = "ZonesChanged" =>
        /\ \A id \in pending_stops :
              id \notin DOMAIN zones \/ zones[id].state = "Stopped"
        /\ \A id \in NonStopZones(zones) :
              id \notin pending_stops /\ Held(tasks, id) = {}

\* A batch was consumed with two entries in the table, one of a stopped zone
\* and one of a zone removed from the store, beside a zone that is not stopped
C33_Witness ==
    /\ lastStep.kind = "ZonesChanged"
    /\ \E id \in pending_stops : id \notin DOMAIN zones
    /\ \E id \in pending_stops : id \in DOMAIN zones /\ zones[id].state = "Stopped"

\* A batch was consumed that cancelled the pending stop of a zone it reports
\* playing again, the stop task being past its sleep
C33_WitnessCancelled ==
    /\ lastStep.kind = "ZonesChanged"
    /\ \E t \in BagToSet(tasks) :
          /\ t.kind = "stop"
          /\ t.aborted = "awake"
          /\ t.zone \in NonStopZones(zones)


(***************************************************************************)
(* The view published last against the store.                              *)
(***************************************************************************)
\* Zones changed, one a batch, and removed, and the tasks: no seek, no loss
NextConverge ==
    \/ Registered(TRUE, TRUE, TRUE)
    \/ \E z \in PlainZones : ZonesChanged(<<z>>)
    \/ \E ids \in RemoveLists : ZonesRemoved(ids)
    \/ TaskStep

SpecConverge == InitWatching({"last"}) /\ [][NextConverge]_vars

\* Message m lists the zones of the store, each in its state
ListsStore(m) ==
    /\ DOMAIN m.raw_zones = DOMAIN zones
    /\ \A id \in DOMAIN zones : m.raw_zones[id].state = zones[id].state

\* C34 (as the specification states it): when every spawned task has ended
\* and the store holds a zone that is not Loading, the ZonesChanged published
\* last lists the zones of the store in their states.
C34_PublishedViewConverges ==
    (tasks = EmptyBag /\ HasNonLoading(zones)) =>
        /\ published # <<>>
        /\ ListsStore(published[1])


(***************************************************************************)
(* The wake-up of the rendezvous.                                          *)
(***************************************************************************)
\* C35 (as the specification states it): when the snapshot of the zone a
\* caller has just put in the slot is stored while the call has not returned,
\* the caller is woken by it, wherever the caller stands after the slot's
\* update.
C35_NoLostWakeUp ==
    [][\A c \in DOMAIN callers :
          (/\ lastStep'.kind = "Queue"
           /\ lastStep'.ids = <<callers[c].zone>>
           /\ active_queue_zone = callers[c].zone
           /\ callers[c].pc \in {"dropped", "wait"}) =>
              callers'[c].woken]_vars


(***************************************************************************)
(* Queue deltas and the life of the loop.                                  *)
(***************************************************************************)
\* C36 (as the specification states it): whatever the cached queue and the
\* delta, Insert or Remove, of any index and count, the loop goes on after
\* the delta is applied.
C36_DeltasNeverStopLoop ==
    lastStep.kind = "QueueChanges" => loop_pc # "dead"

(***************************************************************************)
(* The guards taken one by one.  A program lists what a piece of code does *)
(* to the guards, in the order of the source; where the code branches on   *)
(* data, the program is the branch that takes the most guards, or there is *)
(* a program for each branch.  The guards of connected, core_name, the     *)
(* image and browse services and the raw JSON are left out: no code asks   *)
(* for another guard while it holds one of them.                           *)
(***************************************************************************)
\* CoreEvent::Registered: *transport_service.write().await = Some(..)
RegisteredGuards == <<Acq("transport", "W"), Rel("transport")>>

\* CoreEvent::Lost: zones.write().await.clear(), then
\* *transport_service.write().await = None, each guard a temporary
LostGuards ==
    <<Acq("zones", "W"), Rel("zones"), Acq("transport", "W"), Rel("transport")>>

\* Parsed::Zones: zone_map = zones.write(), images.read() for a zone with an
\* image key, drop(zone_map), get_image, zones.read() for the snapshot, and
\* pending_stops.lock() for a zone that stopped or left the stop
ZonesGuards ==
    <<Acq("zones", "W"), Acq("images", "R"), Rel("images"), Rel("zones"),
      Await, Acq("zones", "R"), Rel("zones"),
      Acq("pending", "X"), Rel("pending")>>

\* Parsed::ZonesRemoved and Parsed::ZonesSeek: zone_map = zones.write()
ZonesRemovedGuards == <<Acq("zones", "W"), Rel("zones")>>

\* Parsed::Jpeg and Parsed::Png: images.write().await.insert(..)
ImageGuards == <<Acq("images", "W"), Rel("images")>>

\* Parsed::Queue and Parsed::QueueChanges: active_zone =
\* active_queue_zone.read(), and under it queues.write(); both are dropped at
\* the end of the arm, the later one first
QueueGuards ==
    <<Acq("slot", "R"), Acq("queues", "W"), Rel("queues"), Rel("slot")>>

\* The delayed stop task: sleep, zones.read() in
\* build_ws_zone_data_from_zones, the send (which never waits),
\* pending_stops.lock().remove
StopTaskGuards ==
    <<Await, Acq("zones", "R"), Rel("zones"), Acq("pending", "X"), Rel("pending")>>

\* A spawned broadcast: build_ws_zone_data_from_zones and the send
BroadcastTaskGuards == <<Acq("zones", "R"), Rel("zones")>>

\* A handler of the server, and the commands of the CLI and the TUI:
\* client = roon_client.lock().await, and then the call of the client.  The
\* programs of the calls end with the drop of client.
handler_guards == <<Acq("client", "X")>>

\* get_zones and build_ws_zone_data under the client's mutex
get_zones_guards == <<Acq("zones", "R"), Rel("zones"), Rel("client")>>

\* get_queue under the client's mutex
get_queue_guards == <<Acq("queues", "R"), Rel("queues"), Rel("client")>>

\* get_image under the client's mutex
get_image_guards == <<Acq("images", "R"), Rel("images"), Rel("client")>>

\* A wrong subscribe_to_queue, which looks into the queues before it takes
\* the slot for writing and holds them until it returns
subscribe_to_queue_peeking ==
    <<Acq("transport", "R"), Acq("slot", "R"), Rel("slot"),
      Acq("queues", "R"), Acq("slot", "W"), Await, Rel("slot"),
      Await, Rel("queues"), Rel("transport"), Rel("client")>>

\* subscribe_to_queue for a zone other than the slot's: transport_svc =
\* transport_service.read() held to the end; current_zone =
\* active_queue_zone.read() dropped; active_zone = active_queue_zone.write()
\* held over the awaits of unsubscribe_queue and subscribe_queue (one op),
\* dropped; then the wait for queue_ready or the timeout
subscribe_to_queue_guards ==
    <<Acq("transport", "R"),
      Acq("slot", "R"), Rel("slot"), Acq("slot", "W"), Await, Rel("slot"),
      Await, Rel("transport"), Rel("client")>>

\* subscribe_to_queue for the zone of the slot: the early return drops
\* current_zone and transport_svc
subscribe_to_queue_already ==
    <<Acq("transport", "R"), Acq("slot", "R"),
      Rel("slot"), Rel("transport"), Rel("client")>>

\* control_zone under the client's mutex: transport_service.read() held over
\* the call of the core
control_zone_guards ==
    <<Acq("transport", "R"), Await, Rel("transport"), Rel("client")>>

\* mute_output under the client's mutex: zones = zones.read() held while
\* transport = transport_service.read() is taken and over the call
mute_output_guards ==
    <<Acq("zones", "R"), Acq("transport", "R"), Await,
      Rel("transport"), Rel("zones"), Rel("client")>>

LoopPrograms ==
    {"Registered", "Lost", "Zones", "ZonesRemoved", "Image", "Queue"}
TaskPrograms == {"stop", "broadcast"}
HandlerPrograms ==
    {"get_zones", "get_queue", "get_image", "subscribe_to_queue",
     "subscribe_to_queue_already", "control_zone", "mute_output"}

\* The guards p holds in g
HeldBy(g, p) == {l \in Locks : \E h \in g.held[l] : h.proc = p}

\* What p starts with
ProgramsOf(p) ==
    IF p = "loop" THEN LoopPrograms
    ELSE IF p = "task" THEN TaskPrograms ELSE {"handler"}

Program(name) ==
    CASE name = "Registered" -> RegisteredGuards
      [] name = "Lost" -> LostGuards
      [] name = "Zones" -> ZonesGuards
      [] name = "ZonesRemoved" -> ZonesRemovedGuards
      [] name = "Image" -> ImageGuards
      [] name = "Queue" -> QueueGuards
      [] name = "stop" -> StopTaskGuards
      [] name = "broadcast" -> BroadcastTaskGuards
      [] name = "handler" -> handler_guards
      [] name = "get_zones" -> get_zones_guards
      [] name = "get_queue" -> get_queue_guards
      [] name = "get_image" -> get_image_guards
      [] name = "subscribe_to_queue" -> subscribe_to_queue_guards
      [] name = "subscribe_to_queue_already" -> subscribe_to_queue_already
      [] name = "control_zone" -> control_zone_guards
      [] name = "mute_output" -> mute_output_guards
      [] OTHER -> <<>>

\* What task p does next, once it runs a program
NextOp(p) == Program(guards.prog[p])[guards.pc[p]]

Running(p) == guards.pc[p] > 0

GuardStepOnly == UNCHANGED <<progVars, histVars, channelVars, commands>>

\* p goes on to the op after this one; the program's last op ends it
Advanced(g, p) ==
    IF g.pc[p] = Len(Program(g.prog[p]))
    THEN [g EXCEPT !.pc[p] = 0, !.prog[p] = "none"]
    ELSE [g EXCEPT !.pc[p] = @ + 1]

\* Readers share a guard; a writer and a mutex's owner have it alone
Compatible(mode, holders) ==
    IF mode = "R" THEN \A h \in holders : h.mode = "R" ELSE holders = {}

\* guard.read(), guard.write() and guard.lock() polled for the first time by
\* p, whose next op it is: the guard is p's at once when nobody waits for it
\* and the holders allow it, and p goes on; otherwise the request joins the
\* guard's queue
Poll(g, p) ==
    IF g.pc[p] = 0 \/ g.waiting[p] THEN g
    ELSE LET op == Program(g.prog[p])[g.pc[p]]
             req == [proc |-> p, mode |-> op.mode]
         IN  IF op.op # "acq" THEN g
             ELSE IF g.queue[op.lock] = <<>> /\ Compatible(op.mode, g.held[op.lock])
             THEN Advanced([g EXCEPT !.held[op.lock] = @ \cup {req}], p)
             ELSE [g EXCEPT !.waiting[p] = TRUE,
                            !.queue[op.lock] = Append(@, req)]

\* The steps of p from g up to its next await that is not ready: no code
\* asks for more than two guards in a row
Polled(g, p) ==
    \E g0 \in {g} : \E g1 \in {Poll(g0, p)} : guards' = Poll(g1, p)

\* The loop takes an event, a task is spawned, a request comes in: the code
\* runs up to its first await
GuardStart(p, name) ==
    /\ ~Running(p)
    /\ HeldBy(guards, p) = {}
    /\ name \in ProgramsOf(p)
    /\ Polled([guards EXCEPT !.pc[p] = 1, !.prog[p] = name], p)
    /\ GuardStepOnly

\* The handler that has the client calls it: the call runs up to its first
\* await
GuardCall(p, name) ==
    /\ ~Running(p)
    /\ HeldBy(guards, p) = {"client"}
    /\ Polled([guards EXCEPT !.pc[p] = 1, !.prog[p] = name], p)
    /\ GuardStepOnly

\* The request at the head of the guard's queue is granted once the holders
\* allow it
GuardGrant(p) ==
    /\ Running(p) /\ guards.waiting[p]
    /\ LET l == NextOp(p).lock
           q == guards.queue[l]
       IN  /\ q # <<>> /\ Head(q).proc = p
           /\ Compatible(Head(q).mode, guards.held[l])
           /\ Polled(Advanced([guards EXCEPT !.waiting[p] = FALSE,
                                              !.queue[l] = Tail(q),
                                              !.held[l] = @ \cup {Head(q)}], p), p)
    /\ GuardStepOnly

\* drop(guard), or the end of the guard's scope
GuardRelease(p) ==
    /\ Running(p)
    /\ NextOp(p).op = "rel"
    /\ Polled(Advanced([guards EXCEPT !.held[NextOp(p).lock] =
                            {h \in @ : h.proc # p}], p), p)
    /\ GuardStepOnly

\* An await on something else than a guard: a call of the core, the sleep,
\* the rendezvous, which the timeout ends at the latest
GuardAwait(p) ==
    /\ Running(p)
    /\ NextOp(p).op = "await"
    /\ Polled(Advanced(guards, p), p)
    /\ GuardStepOnly

\* What p does once it has started; a handler that has the client calls it
GuardStep(p) ==
    \/ GuardGrant(p) \/ GuardRelease(p) \/ GuardAwait(p)
    \/ \E name \in HandlerPrograms : GuardCall(p, name)

NextGuards ==
    \/ \E p \in Procs : \E name \in ProgramsOf(p) : GuardStart(p, name)
    \/ \E p \in Handlers : \E name \in HandlerPrograms : GuardCall(p, name)
    \/ \E p \in Procs : GuardGrant(p)
    \/ \E p \in Procs : GuardRelease(p)
    \/ \E p \in Procs : GuardAwait(p)

\* The runtime polls every task that can go on; new events, tasks and
\* requests need not come
SpecGuards ==
    /\ InitWatching({})
    /\ [][NextGuards]_vars
    /\ \A p \in Procs : WF_vars(GuardStep(p))

\* C37: no deadlock on the shared guards.  Whatever the event loop, a
\* spawned task and two request handlers do at the same time, a task that
\* asked for a guard (of the zones, images, queues, queue slot, transport
\* service, pending stops, or the client's mutex) is granted it in the end:
\* no task waits for a guard from some moment on for ever.
C37_GuardsAreGranted ==
    \A p \in Procs : []<>(~guards.waiting[p])

\* The loop waits for the transport service's write guard, which a handler
\* holds for reading while it waits for the queue, and the other handler
\* waits for the client's mutex
C37_Witness ==
    /\ guards.waiting["loop"] /\ NextOp("loop").lock = "transport"
    /\ guards.prog["h1"] = "subscribe_to_queue" /\ guards.pc["h1"] = 7
    /\ guards.waiting["h2"] /\ NextOp("h2").lock = "client"

\* C38: the queue slot matches the upstream subscription.  Whenever
\* subscribe_to_queue(z) returns while the connection is up and the transport
\* service is there, the core holds a queue subscription of ours for z, made
\* on this connection; so it is for a call after a lost and a registered
\* event with the id the slot held before the loss.
C38_SlotMatchesUpstream ==
    [][\A c \in DOMAIN callers :
          (/\ callers[c].pc \in {"check", "wait"}
           /\ callers'[c].pc = "idle"
           /\ connected /\ transport_service /\ loop_pc = "idle") =>
              callers[c].zone \in Subscribed(upstream')]_vars

(***************************************************************************)
(* The pending table in the long run: the events that start, cancel and    *)
(* orphan stop tasks, and the tasks' steps, which the runtime takes as     *)
(* long as a task can go on (timers fire, ready tasks are polled).         *)
(***************************************************************************)
\* Zone updates that start a stop task or cancel one
StopZones ==
    {Zone(id, st, FALSE, NoKey, NoSeek) : id \in ZoneIds, st \in {"Playing", "Stopped"}}

NextDrain ==
    \/ Registered(TRUE, TRUE, TRUE)
    \/ Lost
    \/ \E z \in StopZones : ZonesChanged(<<z>>)
    \/ \E ids \in RemoveLists : ZonesRemoved(ids)
    \/ TaskStep

SpecDrain ==
    /\ InitWatching({"step"})
    /\ [][NextDrain]_vars
    /\ WF_vars(TaskStep)

\* C39: the pending table drains.  If from some moment on no upstream event
\* is consumed, the pending stop table is empty from some moment on: every
\* entry is removed, those of zones that were removed or cleared by a lost
\* event too, and none comes back.
C39_PendingTableDrains ==
    <>[][lastStep'.kind \notin EventKinds]_vars => <>[](pending_stops = {})

\* The table holds the entry of a zone that a lost event took out of the
\* store, and the entry's task is still in its sleep
C39_Witness ==
    /\ lastStep.kind = "Lost"
    /\ pending_stops # {}
    /\ \A id \in pending_stops : id \notin DOMAIN zones
    /\ \E t \in BagToSet(tasks) : t.held /\ t.pc = "sleep"

================================================================
